---- MODULE Spec2Model ----
(***************************************************************************)
(* State-machine model of NMount (src/NMount.py): the mount orchestration  *)
(* and persistent state engine of MainWindow (do_mount, do_unmount,        *)
(* restore_previous_mount, has_permission_rules, on_fix_permissions,       *)
(* _do_auto_unmount) together with the operating-system state the external *)
(* tools act on (loop devices, the mount table, the polkit rule file).     *)
(*                                                                         *)
(* Paths and output tokens are sequences of one-character strings, so that *)
(* the string handling of the source (strip, rstrip, startswith, replace,  *)
(* isdigit) is computed and not assumed.  Python's None and "" are both    *)
(* the empty sequence: the source only ever tests them for truthiness.     *)
(***************************************************************************)
EXTENDS Integers, Sequences, FiniteSets, TLC

VARIABLES
    running,              \* a GUI process (MainWindow) is alive
    perms_fixed,          \* MainWindow._perms_fixed
    auto_unmount_on_exit, \* MainWindow.auto_unmount_on_exit
    mounted_isos,         \* MainWindow.mounted_isos
    loop_device,          \* MainWindow.loop_device
    mount_device,         \* MainWindow.mount_device
    mount_point,          \* MainWindow.mount_point
    btn_mount,            \* MainWindow.btn_mount is enabled
    btn_unmount,          \* MainWindow.btn_unmount is enabled
    box_prefs,            \* MainWindow.box_prefs (the language box) is enabled
    conf,                 \* the persisted config document (CONF_FILE)
    rule_file,            \* POLKIT_RULE_DST: "absent", "managed" or "foreign"
    loops,                \* OS: existing loop device -> its block device tree
    mounts,               \* OS: the live mount table, a set of [dev, mp]
    pkexec,               \* PKEXEC is not None
    udisksctl,            \* UDISKSCTL is not None
    cmds,                 \* external commands issued by the last operation
    last,                 \* what the last operation was and how it ended
    cfs,                  \* the config files on disk: primary, .bak and .tmp
    wr,                   \* the write_conf call in progress, step by step
    ev,                   \* the last call or event of the config store
    fn                    \* a pure function under test: its input and result

\* the variables of the mount engine and of the config store / function specs
widgets == <<btn_mount, btn_unmount, box_prefs>>
mount_vars == <<running, perms_fixed, auto_unmount_on_exit, mounted_isos, loop_device,
                mount_device, mount_point, widgets, conf, rule_file, loops, mounts,
                pkexec, udisksctl, cmds, last>>
aux_vars == <<cfs, wr, ev, fn>>
vars == <<mount_vars, aux_vars>>

(***************************************************************************)
(* Bounds of the model.                                                    *)
(***************************************************************************)
\* number of loop devices the kernel can hand out (/dev/loop0 ..)
NumLoops == 1

(***************************************************************************)
(* Strings.                                                                *)
(***************************************************************************)
None == <<>>
Truthy(v) == v # <<>>
DigitChar == <<"0", "1", "2", "3", "4", "5", "6", "7", "8", "9">>
DevPrefix == <<"/", "d", "e", "v", "/">>
DevLoop == <<"/", "d", "e", "v", "/", "l", "o", "o", "p">>
RunMedia == <<"/", "r", "u", "n", "/", "m", "e", "d", "i", "a", "/">>
Media == <<"/", "m", "e", "d", "i", "a", "/">>
Mnt == <<"/", "m", "n", "t", "/">>
UnknownMountPoint == <<"(", "u", "n", "k", "n", "o", "w", "n", ")">>
W_Mounted == <<"M", "o", "u", "n", "t", "e", "d">>
W_at == <<"a", "t">>
IsoA == <<"/", "a", ".", "i", "s", "o">>
IsoB == <<"/", "b", ".", "i", "s", "o">>
IsoC == <<"/", "c", ".", "i", "s", "o">>

\* the regular files on disk, and what the user can leave in the path field
Files == {IsoA, IsoB, IsoC}
\* (a blank field, the three files, and /x.iso, which does not exist)
IsoInputs == {<<" ">>, IsoA, IsoB, IsoC, <<"/", "x", ".", "i", "s", "o">>}

StartsWith(s, p) == Len(s) >= Len(p) /\ SubSeq(s, 1, Len(p)) = p

\* str.rstrip(chars)
RECURSIVE RStrip(_, _)
RStrip(s, chars) ==
    IF s = <<>> \/ s[Len(s)] \notin chars THEN s
    ELSE RStrip(SubSeq(s, 1, Len(s) - 1), chars)

\* str.lstrip(chars)
RECURSIVE LStrip(_, _)
LStrip(s, chars) ==
    IF s = <<>> \/ s[1] \notin chars THEN s ELSE LStrip(Tail(s), chars)

\* str.strip() (whitespace)
Strip(s) == LStrip(RStrip(s, {" "}), {" "})

\* str.replace(sub, ""), sub non-empty
RECURSIVE Remove(_, _)
Remove(s, sub) ==
    IF s = <<>> THEN <<>>
    ELSE IF StartsWith(s, sub) THEN Remove(SubSeq(s, Len(sub) + 1, Len(s)), sub)
    ELSE <<s[1]>> \o Remove(Tail(s), sub)

\* str.isdigit()
IsDigit(s) == s # <<>> /\ \A i \in 1..Len(s) : s[i] \in {DigitChar[k] : k \in DOMAIN DigitChar}

\* str.lower() on the filesystem type names lsblk prints
Lower(s) == IF s = "LVM2_member" THEN "lvm2_member" ELSE s

Range(f) == {f[i] : i \in DOMAIN f}

(***************************************************************************)
(* The operating system: loop devices, their device trees, the mount table.*)
(***************************************************************************)
LoopDev(i) == DevLoop \o <<DigitChar[i + 1]>>
LoopPool == {LoopDev(i) : i \in 0..(NumLoops - 1)}
Part(dev, n) == dev \o <<"p", n>>
Row(t, f, p) == [type |-> t, fstype |-> f, path |-> p]

\* The device tree each image file shows once attached: /a.iso is a plain
\* ISO 9660 image, /b.iso carries its filesystems on two partitions, /c.iso
\* holds an LVM volume that the system activates.
TreeOf(dev, iso) ==
    CASE iso = IsoA -> <<Row("loop", "iso9660", dev)>>
      [] iso = IsoB ->
            <<Row("loop", "", dev), Row("part", "ext4", Part(dev, "1")),
              Row("part", "iso9660", Part(dev, "2"))>>
      [] iso = IsoC ->
            <<Row("loop", "LVM2_member", dev), Row("lvm", "ext4",
                  <<"/", "d", "e", "v", "/", "m", "a", "p", "p", "e", "r", "/", "v", "g",
                    dev[Len(dev)]>>)>>

\* where udisks mounts a device: /run/media/<name of the device node>
MountPointFor(dev) == RunMedia \o SubSeq(dev, Len(DevPrefix) + 1, Len(dev))

OsState(l, m) == [loops |-> l, mounts |-> m]
MountedDevs(os) == {m.dev : m \in os.mounts}
\* a device that exists and carries a filesystem the kernel can mount
HasFilesystem(os, d) ==
    \E l \in DOMAIN os.loops : \E i \in DOMAIN os.loops[l] :
        /\ os.loops[l][i].path = d
        /\ os.loops[l][i].fstype \notin {"", "LVM2_member"}
FreeLoops(os) == LoopPool \ DOMAIN os.loops
LowestFree(os) ==
    LoopDev(CHOOSE i \in 0..(NumLoops - 1) :
                /\ LoopDev(i) \in FreeLoops(os)
                /\ \A j \in 0..(i - 1) : LoopDev(j) \notin FreeLoops(os))

\* a call of run(): the tool, its argument, the exit code and, where the
\* caller reads it, the output split into tokens
CmdOut(c, a, rc, out) == [cmd |-> c, arg |-> a, rc |-> rc, out |-> out]
Cmd(c, a, rc) == CmdOut(c, a, rc, <<>>)

(***************************************************************************)
(* The external tools.  Each takes the OS state and what the environment   *)
(* lets happen this time (ok: the tool does not fail for a reason of its   *)
(* own) and returns the exit code, the output split into tokens and the    *)
(* OS state afterwards.                                                    *)
(***************************************************************************)
\* udisksctl loop-setup -r -f <iso>: "Mapped file <iso> as /dev/loopN."
ExecLoopSetup(os, iso, w) ==
    IF w.ok /\ FreeLoops(os) # {}
    THEN LET d == LowestFree(os) IN
         [rc |-> 0, dev |-> d,
          out |-> <<<<"M", "a", "p", "p", "e", "d">>, <<"f", "i", "l", "e">>, iso>>
                      \o (IF w.parse THEN <<<<"a", "s">>, d \o <<".">>>> ELSE <<>>),
          os |-> OsState([x \in DOMAIN os.loops \cup {d} |->
                              IF x = d THEN TreeOf(d, iso) ELSE os.loops[x]],
                         os.mounts)]
    ELSE [rc |-> 1, dev |-> None, out |-> <<>>, os |-> os]

\* udisksctl mount -b <dev> --options ro: "Mounted <dev> at <mount point>."
ExecMount(os, dev, ok) ==
    IF ok /\ HasFilesystem(os, dev) /\ dev \notin MountedDevs(os)
    THEN [rc |-> 0,
          out |-> <<W_Mounted, dev, W_at, MountPointFor(dev) \o <<".">>>>,
          os |-> OsState(os.loops,
                         os.mounts \cup {[dev |-> dev, mp |-> MountPointFor(dev)]})]
    ELSE [rc |-> 1, out |-> <<>>, os |-> os]

\* udisksctl unmount -b <dev>: fails when the device is not mounted
ExecUnmount(os, dev, ok) ==
    IF ok /\ dev \in MountedDevs(os)
    THEN [rc |-> 0, os |-> OsState(os.loops, {m \in os.mounts : m.dev # dev})]
    ELSE [rc |-> 1, os |-> os]

\* udisksctl loop-delete -b <dev>: fails when the device does not exist or
\* one of its block devices is still mounted
ExecLoopDelete(os, dev, ok) ==
    IF /\ ok
       /\ dev \in DOMAIN os.loops
       /\ \A i \in DOMAIN os.loops[dev] : os.loops[dev][i].path \notin MountedDevs(os)
    THEN [rc |-> 0,
          os |-> OsState([x \in DOMAIN os.loops \ {dev} |-> os.loops[x]], os.mounts)]
    ELSE [rc |-> 1, os |-> os]

\* lsblk -nrpo FSTYPE,PATH <dev>: one line per device, split on whitespace
\* (a device without a filesystem prints an empty first column)
LsblkFstype(os, dev, ok) ==
    IF ok /\ dev \in DOMAIN os.loops
    THEN [rc |-> 0,
          lines |-> [i \in DOMAIN os.loops[dev] |->
                        IF os.loops[dev][i].fstype = "" THEN <<os.loops[dev][i].path>>
                        ELSE <<os.loops[dev][i].fstype, os.loops[dev][i].path>>]]
    ELSE [rc |-> 1, lines |-> <<>>]

\* lsblk -nrpo TYPE,PATH <dev>
LsblkType(os, dev, ok) ==
    IF ok /\ dev \in DOMAIN os.loops
    THEN [rc |-> 0,
          lines |-> [i \in DOMAIN os.loops[dev] |->
                        <<os.loops[dev][i].type, os.loops[dev][i].path>>]]
    ELSE [rc |-> 1, lines |-> <<>>]

(***************************************************************************)
(* Pure functions of the source.                                           *)
(***************************************************************************)
\* is_path_mounted: an exact match on the mount point column of /proc/mounts
is_path_mounted(path, mnts) == \E m \in mnts : m.mp = path

\* an enumeration that gives every listed device
list_child_partitions_all(r) ==
    IF r.rc = 0 /\ r.lines # <<>>
    THEN LET hasPath(l) == Len(l) >= 2
             sel == SelectSeq(r.lines, hasPath)
         IN [i \in DOMAIN sel |-> sel[i][2]]
    ELSE <<>>

\* list_child_partitions, from the outcome of its lsblk call
list_child_partitions(r) ==
    IF r.rc = 0 /\ r.lines # <<>>
    THEN LET isPart(l) == Len(l) >= 2 /\ l[1] = "part" /\ StartsWith(l[2], DevPrefix)
             sel == SelectSeq(r.lines, isPart)
         IN [i \in DOMAIN sel |-> sel[i][2]]
    ELSE <<>>

prefer == <<"iso9660", "udf", "vfat", "squashfs", "ext4", "ext3", "ext2">>

\* a choice that takes the first listed candidate of any preferred type
PickFirstListed(wants, candidates) ==
    LET isWanted(c) == \E k \in DOMAIN wants : c[1] = wants[k]
        hits == SelectSeq(candidates, isWanted)
    IN IF hits # <<>> THEN hits[1][2] ELSE None

RECURSIVE PickPreferred(_, _)
PickPreferred(wants, candidates) ==
    IF wants = <<>> THEN None
    ELSE LET isWant(c) == c[1] = Head(wants)
             hits == SelectSeq(candidates, isWant)
         IN IF hits # <<>> THEN hits[1][2] ELSE PickPreferred(Tail(wants), candidates)

\* a resolver that knows the preferred types only
pick_mountable_block_preferred_only(base_loop_dev, r) ==
    IF r.rc = 0 /\ r.lines # <<>>
    THEN LET hasFs(l) == Len(l) >= 2 /\ l[1] # "" /\ l[1] # "-"
             sel == SelectSeq(r.lines, hasFs)
             candidates == [i \in DOMAIN sel |-> <<Lower(sel[i][1]), sel[i][2]>>]
             best == PickPreferred(prefer, candidates)
         IN IF Truthy(best) THEN best ELSE base_loop_dev
    ELSE base_loop_dev

\* pick_mountable_block, from the outcome of its lsblk call
pick_mountable_block(base_loop_dev, r) ==
    IF r.rc = 0 /\ r.lines # <<>>
    THEN LET hasFs(l) == Len(l) >= 2 /\ l[1] # "" /\ l[1] # "-"
             sel == SelectSeq(r.lines, hasFs)
             candidates == [i \in DOMAIN sel |-> <<Lower(sel[i][1]), sel[i][2]>>]
             best == PickPreferred(prefer, candidates)
         IN IF Truthy(best) THEN best
            ELSE IF candidates # <<>> THEN candidates[1][2]
            ELSE base_loop_dev
    ELSE base_loop_dev

\* do_mount's scan of the loop-setup output for the loop device
IsLoopToken(tok) ==
    /\ StartsWith(tok, DevLoop)
    /\ IsDigit(Remove(Remove(tok, DevLoop), <<"p">>))
\* a scan that takes the first loop device when the output names none
ParseLoopDeviceOrFirst(out) ==
    LET isLoop(tok) == IsLoopToken(RStrip(Strip(tok), {".", ";"}))
        hits == SelectSeq(out, isLoop)
    IN IF hits # <<>> THEN RStrip(Strip(hits[1]), {".", ";"}) ELSE LoopDev(0)

RECURSIVE ParseLoopDevice(_)
ParseLoopDevice(out) ==
    IF out = <<>> THEN None
    ELSE LET token == RStrip(Strip(Head(out)), {".", ";"})
         IN IF IsLoopToken(token) THEN token ELSE ParseLoopDevice(Tail(out))

\* do_mount's scan of the mount output for the mount point
HasMountRoot(tok) ==
    StartsWith(tok, RunMedia) \/ StartsWith(tok, Media) \/ StartsWith(tok, Mnt)
RECURSIVE FirstMountRoot(_)
FirstMountRoot(parts) ==
    IF parts = <<>> THEN None
    ELSE LET cleaned == RStrip(Head(parts), {".", ";"})
         IN IF HasMountRoot(cleaned) THEN cleaned ELSE FirstMountRoot(Tail(parts))
ParseMountPoint(parts) ==
    LET mp_auto == FirstMountRoot(parts) IN
    IF ~Truthy(mp_auto) /\ W_at \in Range(parts)
    THEN LET idx == CHOOSE i \in DOMAIN parts :
                        parts[i] = W_at /\ \A j \in 1..(i - 1) : parts[j] # W_at
         IN IF idx + 1 <= Len(parts) THEN RStrip(parts[idx + 1], {".", ";"}) ELSE None
    ELSE mp_auto

(***************************************************************************)
(* The JSON text of the config file.  A document is a tagged value:        *)
(* string, boolean, list or dict (a sequence of key/value members, in      *)
(* insertion order).  Dumps is json.dumps(data, indent=2,                  *)
(* ensure_ascii=False), Loads is json.loads: a parser of the text, which   *)
(* fails (JSONDecodeError) on anything that is not one complete value.     *)
(***************************************************************************)
JStr(s) == [t |-> "str", v |-> s]
JBool(b) == [t |-> "bool", v |-> <<b>>]
JList(xs) == [t |-> "list", v |-> xs]
JDict(ms) == [t |-> "dict", v |-> ms]
Member(k, v) == [k |-> k, v |-> v]

Quote == "\""
Backslash == "\\"
Newline == "\n"
TrueText == <<"t", "r", "u", "e">>
FalseText == <<"f", "a", "l", "s", "e">>

\* an encoder that writes every character of a string as it is
EscapeCharRaw(c) == <<c>>

\* the escapes json.dumps applies inside a string
EscapeChar(c) ==
    CASE c = Quote -> <<Backslash, Quote>>
      [] c = Backslash -> <<Backslash, Backslash>>
      [] c = Newline -> <<Backslash, "n">>
      [] OTHER -> <<c>>

RECURSIVE Escape(_)
Escape(s) == IF s = <<>> THEN <<>> ELSE EscapeChar(Head(s)) \o Escape(Tail(s))

DumpsString(s) == <<Quote>> \o Escape(s) \o <<Quote>>

\* indent=2: a newline and two spaces per nesting level
RECURSIVE Indent(_)
Indent(lvl) == IF lvl = 0 THEN <<Newline>> ELSE Indent(lvl - 1) \o <<" ", " ">>

RECURSIVE Dump(_, _)
RECURSIVE DumpItems(_, _, _)
RECURSIVE DumpMembers(_, _, _)
DumpItems(xs, i, lvl) ==
    IF i > Len(xs) THEN Indent(lvl - 1)
    ELSE (IF i > 1 THEN <<",">> ELSE <<>>) \o Indent(lvl) \o Dump(xs[i], lvl)
             \o DumpItems(xs, i + 1, lvl)
DumpMembers(ms, i, lvl) ==
    IF i > Len(ms) THEN Indent(lvl - 1)
    ELSE (IF i > 1 THEN <<",">> ELSE <<>>) \o Indent(lvl) \o DumpsString(ms[i].k)
             \o <<":", " ">> \o Dump(ms[i].v, lvl) \o DumpMembers(ms, i + 1, lvl)
Dump(val, lvl) ==
    CASE val.t = "str" -> DumpsString(val.v)
      [] val.t = "bool" -> IF val.v[1] THEN TrueText ELSE FalseText
      [] val.t = "list" ->
            IF val.v = <<>> THEN <<"[", "]">>
            ELSE <<"[">> \o DumpItems(val.v, 1, lvl + 1) \o <<"]">>
      [] val.t = "dict" ->
            IF val.v = <<>> THEN <<"{", "}">>
            ELSE <<"{">> \o DumpMembers(val.v, 1, lvl + 1) \o <<"}">>

\* json.dumps(data, indent=2, ensure_ascii=False)
Dumps(val) == Dump(val, 0)

ParseFail == [ok |-> FALSE, v |-> JList(<<>>), rest |-> <<>>]
Parsed(v, rest) == [ok |-> TRUE, v |-> v, rest |-> rest]
SkipWs(s) == LStrip(s, {" ", Newline})
Drop(s, n) == SubSeq(s, n + 1, Len(s))

\* the characters of a string up to its closing quote
RECURSIVE ParseChars(_, _)
ParseChars(s, acc) ==
    IF s = <<>> THEN ParseFail
    ELSE IF s[1] = Quote THEN Parsed(JStr(acc), Tail(s))
    ELSE IF s[1] = Newline THEN ParseFail
    ELSE IF s[1] = Backslash
    THEN IF Len(s) < 2 THEN ParseFail
         ELSE IF s[2] \in {Quote, Backslash} THEN ParseChars(Drop(s, 2), Append(acc, s[2]))
         ELSE IF s[2] = "n" THEN ParseChars(Drop(s, 2), Append(acc, Newline))
         ELSE ParseFail
    ELSE ParseChars(Tail(s), Append(acc, s[1]))

RECURSIVE ParseValue(_)
RECURSIVE ParseItems(_, _, _)
RECURSIVE ParseMembers(_, _, _)
ParseItems(s, acc, first) ==
    LET s0 == SkipWs(s) IN
    IF s0 = <<>> THEN ParseFail
    ELSE IF first /\ s0[1] = "]" THEN Parsed(JList(acc), Tail(s0))
    ELSE LET r == ParseValue(s0)
             s1 == SkipWs(r.rest)
         IN IF ~r.ok \/ s1 = <<>> THEN ParseFail
            ELSE IF s1[1] = "," THEN ParseItems(Tail(s1), Append(acc, r.v), FALSE)
            ELSE IF s1[1] = "]" THEN Parsed(JList(Append(acc, r.v)), Tail(s1))
            ELSE ParseFail
ParseMembers(s, acc, first) ==
    LET s0 == SkipWs(s) IN
    IF s0 = <<>> THEN ParseFail
    ELSE IF first /\ s0[1] = "}" THEN Parsed(JDict(acc), Tail(s0))
    ELSE IF s0[1] # Quote THEN ParseFail
    ELSE LET k == ParseChars(Tail(s0), <<>>)
             s1 == SkipWs(k.rest)
         IN IF ~k.ok \/ s1 = <<>> \/ s1[1] # ":" THEN ParseFail
            ELSE LET r == ParseValue(Tail(s1))
                     s2 == SkipWs(r.rest)
                     acc2 == Append(acc, Member(k.v.v, r.v))
                 IN IF ~r.ok \/ s2 = <<>> THEN ParseFail
                    ELSE IF s2[1] = "," THEN ParseMembers(Tail(s2), acc2, FALSE)
                    ELSE IF s2[1] = "}" THEN Parsed(JDict(acc2), Tail(s2))
                    ELSE ParseFail
ParseValue(s) ==
    LET s0 == SkipWs(s) IN
    IF s0 = <<>> THEN ParseFail
    ELSE IF s0[1] = Quote THEN ParseChars(Tail(s0), <<>>)
    ELSE IF StartsWith(s0, TrueText) THEN Parsed(JBool(TRUE), Drop(s0, Len(TrueText)))
    ELSE IF StartsWith(s0, FalseText) THEN Parsed(JBool(FALSE), Drop(s0, Len(FalseText)))
    ELSE IF s0[1] = "[" THEN ParseItems(Tail(s0), <<>>, TRUE)
    ELSE IF s0[1] = "{" THEN ParseMembers(Tail(s0), <<>>, TRUE)
    ELSE ParseFail

\* json.loads(text): ok = FALSE is JSONDecodeError
Loads(text) ==
    LET r == ParseValue(text)
    IN IF r.ok /\ SkipWs(r.rest) = <<>> THEN Parsed(r.v, <<>>) ELSE ParseFail

(***************************************************************************)
(* The config files: CONF_FILE (primary), its .json.bak and its .json.tmp. *)
(* A file is missing, unreadable (it exists and reading it raises OSError) *)
(* or a file with a text.                                                  *)
(***************************************************************************)
Missing == [st |-> "missing", text |-> <<>>]
Unreadable == [st |-> "unreadable", text |-> <<>>]
File(text) == [st |-> "file", text |-> text]
Exists(f) == f.st # "missing"
Cfs(p, b, t) == [primary |-> p, bak |-> b, tmp |-> t]

\* what a write that stops midway leaves: the first half of the text
Truncated(text) == SubSeq(text, 1, Len(text) \div 2)

EmptyDoc == JDict(<<>>)
Returned(v) == [raised |-> FALSE, v |-> v]
Raised == [raised |-> TRUE, v |-> EmptyDoc]

\* read_conf: read_text of an unreadable primary raises OSError, which the
\* handler (JSONDecodeError, UnicodeError) does not catch; the handler of
\* the backup read also catches OSError
read_conf(p, b) ==
    IF Exists(p)
    THEN IF p.st = "unreadable" THEN Raised
         ELSE IF Loads(p.text).ok THEN Returned(Loads(p.text).v)
         ELSE IF Exists(b)
         THEN IF b.st = "file" /\ Loads(b.text).ok THEN Returned(Loads(b.text).v)
              ELSE Returned(EmptyDoc)
         ELSE Returned(EmptyDoc)
    ELSE Returned(EmptyDoc)

Frame(pc, data, old) == [pc |-> pc, data |-> data, old |-> old]
Event(op, result, v) == [op |-> op, result |-> result, v |-> v]
FnCall(name, inp, out) == [name |-> name, inp |-> inp, out |-> out]

\* nothing of the config store or of the function specs is in use
AuxIdle ==
    /\ cfs = Cfs(Missing, Missing, Missing)
    /\ wr = Frame("idle", EmptyDoc, Cfs(Missing, Missing, Missing))
    /\ ev = Event("none", "none", EmptyDoc)
    /\ fn = FnCall("none", <<>>, <<>>)

(***************************************************************************)
(* Config and permission helpers.                                          *)
(***************************************************************************)
\* a mount record ({iso_path, loop_device, mount_device, mount_point});
\* NoMount is the empty dict {} of last_mount
MountInfo(iso, dev, mdev, mp) ==
    [iso_path |-> iso, loop_device |-> dev, mount_device |-> mdev, mount_point |-> mp]
NoMount == MountInfo(None, None, None, None)

\* polkit_rule_present: POLKIT_RULE_DST.exists()
polkit_rule_present(rf) == rf # "absent"

\* has_permission_rules: the value it returns and the _perms_fixed it leaves
has_permission_rules(pf, cf, rf) ==
    IF pf THEN [result |-> TRUE, perms_fixed |-> TRUE]
    ELSE LET result == cf.polkit_rule /\ polkit_rule_present(rf)
         IN [result |-> result, perms_fixed |-> result]

Last(op, arg, result, prov) ==
    [op |-> op, arg |-> arg, result |-> result, provisioned |-> prov]

(***************************************************************************)
(* Init: a fresh user account.  No process runs, the config document is    *)
(* empty, no loop device, no mount and no polkit rule file exists.         *)
(* Of the config document the model keeps the keys the mount engine reads  *)
(* back: polkit_rule, last_mount and auto_unmount_on_exit.  The other keys *)
(* (theme, language, recent_files, ...) are written by the same write_conf *)
(* calls, whose failures are modelled, but their values are not state.     *)
(***************************************************************************)
EmptyConf ==
    [polkit_rule |-> FALSE, last_mount |-> NoMount, auto_unmount_on_exit |-> TRUE]

Init ==
    /\ running = FALSE
    /\ perms_fixed = FALSE
    /\ auto_unmount_on_exit = TRUE
    /\ mounted_isos = <<>>
    /\ loop_device = None
    /\ mount_device = None
    /\ mount_point = None
    /\ btn_mount = FALSE
    /\ btn_unmount = FALSE
    /\ box_prefs = FALSE
    /\ conf = EmptyConf
    /\ rule_file = "absent"
    /\ loops = [d \in {} |-> <<>>]
    /\ mounts = {}
    /\ pkexec \in BOOLEAN
    /\ udisksctl \in BOOLEAN
    /\ cmds = <<>>
    /\ last = Last("init", None, "ok", None)
    /\ AuxIdle

\* what a handler of the running process leaves behind
Commit(pf, os, ld, md, mp, isos, cf, cm, lst) ==
    /\ perms_fixed' = pf
    /\ loops' = os.loops
    /\ mounts' = os.mounts
    /\ loop_device' = ld
    /\ mount_device' = md
    /\ mount_point' = mp
    /\ mounted_isos' = isos
    /\ conf' = cf
    /\ cmds' = cm
    /\ last' = lst

(***************************************************************************)
(* MainWindow.__init__ and restore_previous_mount.                         *)
(***************************************************************************)
\* a restore that trusts the config without looking at the mount table
ShouldRestoreTrusting(lm, mnts) == Truthy(lm.mount_point)

\* restore_previous_mount's test: if mp and is_path_mounted(mp)
ShouldRestore(lm, mnts) == Truthy(lm.mount_point) /\ is_path_mounted(lm.mount_point, mnts)

\* the record restore_previous_mount adopts
RestoredInfo(lm) ==
    MountInfo(lm.iso_path, lm.loop_device,
              IF Truthy(lm.mount_device) THEN lm.mount_device ELSE lm.loop_device,
              lm.mount_point)

\* set_main_enabled: the widgets follow `enabled', but Unmount stays
\* enabled while a mount is current
set_main_enabled(enabled, ld, mp) ==
    [btn_mount |-> enabled,
     btn_unmount |-> enabled \/ (Truthy(ld) /\ Truthy(mp)),
     box_prefs |-> enabled]

\* the constructor's last lines: without udisksctl both buttons go off
StartupWidgets(has_perms, ld, mp, has_udisksctl) ==
    LET w == set_main_enabled(has_perms, ld, mp)
    IN IF has_udisksctl THEN w
       ELSE [w EXCEPT !.btn_mount = FALSE, !.btn_unmount = FALSE]

\* the widgets a handler leaves behind
Show(w) ==
    /\ btn_mount' = w.btn_mount
    /\ btn_unmount' = w.btn_unmount
    /\ box_prefs' = w.box_prefs

\* apply_language and apply_theme write the config before the restore; when
\* a write raises, the constructor raises and no process comes up.
Startup ==
    /\ ~running
    /\ UNCHANGED aux_vars
    /\ UNCHANGED <<rule_file, pkexec, udisksctl>>
    /\ \E raised \in BOOLEAN :
        IF raised
        THEN /\ UNCHANGED <<running, auto_unmount_on_exit, widgets>>
             /\ Commit(perms_fixed, OsState(loops, mounts), loop_device, mount_device,
                       mount_point, mounted_isos, conf, <<>>,
                       Last("startup", None, "exception", None))
        ELSE LET lm == conf.last_mount
                 pf0 == conf.polkit_rule \/ polkit_rule_present(rule_file)
                 pf == has_permission_rules(pf0, conf, rule_file).perms_fixed
                 info == RestoredInfo(lm)
             IN /\ running' = TRUE
                /\ auto_unmount_on_exit' = conf.auto_unmount_on_exit
                /\ Show(IF ShouldRestore(lm, mounts)
                        THEN StartupWidgets(pf, info.loop_device, info.mount_point,
                                            udisksctl)
                        ELSE StartupWidgets(pf, None, None, udisksctl))
                /\ IF ShouldRestore(lm, mounts)
                   THEN Commit(pf, OsState(loops, mounts), info.loop_device,
                               info.mount_device, info.mount_point, <<info>>, conf, <<>>,
                               Last("startup", None, "restored_mount", None))
                   ELSE Commit(pf, OsState(loops, mounts), None, None, None, <<>>, conf,
                               <<>>, Last("startup", None, "ok", None))

(***************************************************************************)
(* MainWindow.do_mount.                                                    *)
(***************************************************************************)
\* what loop-setup can do: fail, or attach the image and print the device, or
\* attach it and print something the scan finds no device in
SetupWishes ==
    {[ok |-> FALSE, parse |-> TRUE], [ok |-> TRUE, parse |-> TRUE],
     [ok |-> TRUE, parse |-> FALSE]}

\* a fallback that gives up after the first partition
TryPartsFirstOnly(os, parts, oks, i, log) ==
    IF parts = <<>>
    THEN [mounted |-> FALSE, part |-> None, out |-> <<>>, os |-> os, log |-> log]
    ELSE LET r == ExecMount(os, parts[1], oks[1])
         IN [mounted |-> r.rc = 0, part |-> parts[1], out |-> r.out, os |-> r.os,
             log |-> Append(log, Cmd("mount", parts[1], r.rc))]

\* the partition fallback: try each partition in order until one mounts
RECURSIVE TryParts(_, _, _, _, _)
TryParts(os, parts, oks, i, log) ==
    IF i > Len(parts) THEN [mounted |-> FALSE, part |-> None, out |-> <<>>, os |-> os, log |-> log]
    ELSE LET r == ExecMount(os, parts[i], oks[i])
             log2 == Append(log, Cmd("mount", parts[i], r.rc))
         IN IF r.rc = 0
            THEN [mounted |-> TRUE, part |-> parts[i], out |-> r.out, os |-> r.os, log |-> log2]
            ELSE TryParts(r.os, parts, oks, i + 1, log2)

\* a record of whatever the parse gave
RecordedMountPointRaw(parts) == ParseMountPoint(parts)

\* self.mount_point = mp_auto or "(unknown)"
RecordedMountPoint(parts) ==
    LET mp_auto == ParseMountPoint(parts)
    IN IF Truthy(mp_auto) THEN mp_auto ELSE UnknownMountPoint

\* do_mount from the point where a mount succeeded: the mount point is
\* parsed, the current fields are set, last_mount is written (raised1: the
\* write raises), the record is appended, and add_to_recent_files writes
\* the config once more (raised2)
Mounted(pf, text, iso, dev, mount_dev, out, os, cm) ==
    \E mp \in {RecordedMountPoint(out), RecordedMountPoint(SubSeq(out, 1, 2))} :
    LET info == MountInfo(iso, dev, mount_dev, mp)
        conf1 == [conf EXCEPT !.last_mount = info]
    IN \E raised1 \in BOOLEAN :
        IF raised1
        THEN Commit(pf, os, dev, mount_dev, mp, mounted_isos, conf, cm,
                    Last("do_mount", text, "exception", dev))
        ELSE \E raised2 \in BOOLEAN :
            IF raised2
            THEN Commit(pf, os, dev, mount_dev, mp, Append(mounted_isos, info), conf1,
                        cm, Last("do_mount", text, "exception", dev))
            ELSE Commit(pf, os, dev, mount_dev, mp, Append(mounted_isos, info), conf1,
                        cm, Last("do_mount", text, "mounted_to", dev))

\* the helpers that make the kernel notice the partitions.  so[k] says
\* what becomes of the k-th: "absent" (shutil.which finds none, nothing is
\* run), "ok", "fails" (a non-zero exit, or run() gives 1 for a helper that
\* cannot be started) or "timeout" (run() gives 124 after 5 seconds)
SettleCmds(dev, so) ==
    LET step(k, c, a) ==
            IF so[k] = "absent" THEN <<>>
            ELSE <<Cmd(c, a, CASE so[k] = "ok" -> 0
                               [] so[k] = "fails" -> 1
                               [] so[k] = "timeout" -> 124)>>
    IN step(1, "udevadm", None) \o step(2, "partprobe", dev) \o step(3, "blockdev", dev)

\* the outcomes of the three helpers a mount is tried under
SettleOutcomes ==
    {<<o, o, o>> : o \in {"absent", "ok", "fails", "timeout"}}
        \cup {<<"ok", "absent", "fails">>, <<"timeout", "ok", "absent">>}

\* a settle step that lets a timeout through to do_mount
HelperRaisesOnTimeout(o) == o = "timeout"

\* whether a helper's outcome reaches do_mount as an exception: run() has
\* caught the timeout and the OSError, and do_mount passes on the rest
HelperRaises(o) == FALSE

\* a guard that takes the "(unknown)" sentinel for "nothing mounted"
AlreadyMountedKnownOnly(ld, mp) == Truthy(mp) /\ mp # UnknownMountPoint

\* a do_mount without the guard
AlreadyMountedNever(ld, mp) == FALSE

\* do_mount's guard on the current mount: if self.loop_device or self.mount_point
AlreadyMounted(ld, mp) == Truthy(ld) \/ Truthy(mp)

DoMountWith(settles) ==
    /\ running
    /\ btn_mount
    /\ UNCHANGED aux_vars
    /\ UNCHANGED <<running, auto_unmount_on_exit, rule_file, pkexec, udisksctl>>
    /\ \E text \in IsoInputs :
       \E perm \in {has_permission_rules(perms_fixed, conf, rule_file)} :
       \E iso \in {Strip(text)} :
        LET pf == perm.perms_fixed
            os0 == OsState(loops, mounts)
            Refuse(err) ==
                Commit(pf, os0, loop_device, mount_device, mount_point, mounted_isos,
                       conf, <<>>, Last("do_mount", text, err, None))
            Fail(err, os, cm, prov) ==
                Commit(pf, os, loop_device, mount_device, mount_point, mounted_isos,
                       conf, cm, Last("do_mount", text, err, prov))
        IN IF ~perm.result THEN Refuse("not_ready")
           ELSE IF ~Truthy(iso) THEN Refuse("no_iso")
           ELSE IF iso \notin Files THEN Refuse("bad_path")
           ELSE IF AlreadyMounted(loop_device, mount_point) THEN Refuse("already_mounted")
           ELSE IF ~udisksctl THEN Refuse("no_udisksctl")
           ELSE \E ws \in SetupWishes :
                \E ls \in {ExecLoopSetup(os0, iso, ws)} :
                \E dev \in {ParseLoopDevice(ls.out)} :
               LET c1 == <<CmdOut("loop-setup", iso, ls.rc, ls.out)>>
               IN IF ls.rc # 0 THEN Fail("loop_setup_fail", ls.os, c1, None)
                  ELSE IF ~Truthy(dev) THEN Fail("no_loop_device", ls.os, c1, ls.dev)
                  ELSE \E so \in settles :
                       IF \E k \in DOMAIN so : HelperRaises(so[k])
                       THEN Fail("exception", ls.os, c1 \o SettleCmds(dev, so), ls.dev)
                       ELSE
                       \E lf \in BOOLEAN, m1 \in BOOLEAN :
                       \E fs \in {LsblkFstype(ls.os, dev, lf)} :
                       \E mount_dev \in {pick_mountable_block(dev, fs)} :
                       \E r2 \in {ExecMount(ls.os, mount_dev, m1)} :
                      LET c2 == c1 \o SettleCmds(dev, so)
                                   \o <<Cmd("lsblk-fstype", dev, fs.rc),
                                        Cmd("mount", mount_dev, r2.rc)>>
                      IN IF r2.rc = 0
                         THEN Mounted(pf, text, iso, dev, mount_dev, r2.out, r2.os, c2)
                         ELSE \E lt \in BOOLEAN :
                              \E ty \in {LsblkType(r2.os, dev, lt)} :
                              \E parts \in {list_child_partitions(ty)} :
                              \E t \in {TryParts(r2.os, parts, oks, 1,
                                                  Append(c2, Cmd("lsblk-type", dev, ty.rc))) :
                                             oks \in [DOMAIN parts -> BOOLEAN]} :
                                 IF t.mounted
                                 THEN Mounted(pf, text, iso, dev, t.part, t.out, t.os, t.log)
                                 ELSE \E dl \in BOOLEAN :
                                      \E d \in {ExecLoopDelete(t.os, dev, dl)} :
                                        Fail("mount_fail", d.os,
                                             Append(t.log, Cmd("loop-delete", dev, d.rc)),
                                             ls.dev)
    /\ IF last'.result = "mounted_to"
       THEN Show([btn_mount |-> FALSE, btn_unmount |-> TRUE, box_prefs |-> box_prefs])
       ELSE UNCHANGED widgets

\* do_mount on a machine where the helpers are installed and succeed
DoMount == DoMountWith({<<"ok", "ok", "ok">>})

(***************************************************************************)
(* MainWindow.do_unmount.                                                  *)
(***************************************************************************)
\* a do_unmount that takes any exit code but a negative one for success
StepFailedNegativeOnly(rc) == rc < 0

\* do_unmount's early returns after each tool: if rc1 != 0, if rc2 != 0
StepFailed(rc) == rc # 0

DoUnmount ==
    /\ running
    /\ btn_unmount
    /\ UNCHANGED aux_vars
    /\ UNCHANGED <<running, auto_unmount_on_exit, rule_file, pkexec, udisksctl>>
    /\ LET os0 == OsState(loops, mounts)
           dev == loop_device
           mdev == mount_device
           Keep(err, os, cm) ==
               Commit(perms_fixed, os, loop_device, mount_device, mount_point,
                      mounted_isos, conf, cm, Last("do_unmount", None, err, None))
           notDev(m) == m.loop_device # dev
           rest == SelectSeq(mounted_isos, notDev)
       IN IF ~(Truthy(mount_point) /\ Truthy(loop_device)) THEN Keep("unmount_fail", os0, <<>>)
          ELSE IF ~udisksctl THEN Keep("no_udisksctl", os0, <<>>)
          ELSE \E u \in BOOLEAN :
              LET r1 == ExecUnmount(os0, mdev, u)
                  c1 == <<Cmd("unmount", mdev, r1.rc)>>
              IN IF StepFailed(r1.rc) THEN Keep("unmount_fail", r1.os, c1)
                 ELSE \E dl \in BOOLEAN :
                     LET r2 == ExecLoopDelete(r1.os, dev, dl)
                         c2 == Append(c1, Cmd("loop-delete", dev, r2.rc))
                     IN IF StepFailed(r2.rc) THEN Keep("loop_delete_fail", r2.os, c2)
                        ELSE IF conf.last_mount = NoMount
                        THEN Commit(perms_fixed, r2.os, None, None, None, rest, conf, c2,
                                    Last("do_unmount", None, "unmount_ok", None))
                        ELSE \E raised \in BOOLEAN :
                            IF ~raised
                            THEN Commit(perms_fixed, r2.os, None, None, None, rest,
                                        [conf EXCEPT !.last_mount = NoMount], c2,
                                        Last("do_unmount", None, "unmount_ok", None))
                            ELSE Commit(perms_fixed, r2.os, None, None, None, rest, conf,
                                        c2, Last("do_unmount", None, "exception", None))
    /\ IF last'.result \in {"unmount_ok", "exception"}
       THEN Show([btn_mount |-> TRUE, btn_unmount |-> FALSE, box_prefs |-> box_prefs])
       ELSE UNCHANGED widgets

(***************************************************************************)
(* Permissions: install_polkit_rule and MainWindow.on_fix_permissions.     *)
(***************************************************************************)
\* cleanup_old_polkit_rules: a rule file without the marker is removed
cleanup_old_polkit_rules(rf, removed) ==
    IF rf = "foreign" /\ removed THEN "absent" ELSE rf

\* an installer routine that does not look for the rule file first
install_polkit_rule_always(rf, user_ok, staged, has_pkexec, removed, installed) ==
    IF ~user_ok
    THEN [ok |-> FALSE, err |-> "fixperms_failed", rule_file |-> rf, cm |-> <<>>]
    ELSE IF ~has_pkexec
    THEN [ok |-> FALSE, err |-> "fixperms_need_pkexec", rule_file |-> rf, cm |-> <<>>]
    ELSE IF ~installed
    THEN [ok |-> FALSE, err |-> "fixperms_failed", rule_file |-> rf,
          cm |-> <<Cmd("pkexec-install", None, 1)>>]
    ELSE [ok |-> TRUE, err |-> "", rule_file |-> "managed",
          cm |-> <<Cmd("pkexec-install", None, 0)>>]

\* the names getpass.getuser() can give: a usual one, one with a dot, one
\* with a hyphen and an underscore, and none
Users == {<<"b", "o", "b">>, <<"j", ".", "d">>, <<"a", "-", "b", "_", "1">>, <<>>}

\* a test that only asks for a name
ValidUserNonEmpty(user) == user # <<>>

\* install_polkit_rule's test of the username:
\* not user or not all(c.isalnum() or c in '_-' for c in user)
ValidUser(user) ==
    /\ user # <<>>
    /\ \A i \in DOMAIN user :
          \/ user[i] \in {DigitChar[k] : k \in DOMAIN DigitChar}
          \/ user[i] \in {"a", "b", "c", "d", "e", "f", "g", "h", "i", "j", "k", "l", "m",
                          "n", "o", "p", "q", "r", "s", "t", "u", "v", "w", "x", "y", "z"}
          \/ user[i] \in {"_", "-"}

\* install_polkit_rule: (ok, error) and the rule file it leaves; err is the
\* message on_fix_permissions shows for the returned value ("fixperms_need_pkexec"
\* for the manual command list), "exception" when writing the staging copy
\* of the rule raises
install_polkit_rule(rf, user_ok, staged, has_pkexec, removed, installed) ==
    IF polkit_rule_present(rf) THEN [ok |-> TRUE, err |-> "", rule_file |-> rf, cm |-> <<>>]
    ELSE LET rf1 == cleanup_old_polkit_rules(rf, removed)
         IN IF ~user_ok
            THEN [ok |-> FALSE, err |-> "fixperms_failed", rule_file |-> rf1, cm |-> <<>>]
            ELSE IF ~staged
            THEN [ok |-> FALSE, err |-> "exception", rule_file |-> rf1,
                  cm |-> <<Cmd("write_text", None, 1)>>]
            ELSE IF ~has_pkexec
            THEN [ok |-> FALSE, err |-> "fixperms_need_pkexec", rule_file |-> rf1,
                  cm |-> <<Cmd("write_text", None, 0)>>]
            ELSE IF ~installed
            THEN [ok |-> FALSE, err |-> "fixperms_failed", rule_file |-> rf1,
                  cm |-> <<Cmd("write_text", None, 0), Cmd("pkexec-install", None, 1)>>]
            ELSE [ok |-> TRUE, err |-> "", rule_file |-> "managed",
                  cm |-> <<Cmd("write_text", None, 0), Cmd("pkexec-install", None, 0)>>]

OnFixPermissions ==
    /\ running
    /\ UNCHANGED aux_vars
    /\ UNCHANGED <<running, auto_unmount_on_exit, pkexec, udisksctl>>
    /\ LET perm == has_permission_rules(perms_fixed, conf, rule_file)
           os0 == OsState(loops, mounts)
           Done(user, pf, cf, cm, res) ==
               Commit(pf, os0, loop_device, mount_device, mount_point, mounted_isos, cf,
                      cm, Last("on_fix_permissions", user, res, None))
       IN IF perm.result
          THEN /\ rule_file' = rule_file
               /\ Done(None, TRUE, conf, <<>>, "fixperms_exists")
          ELSE \E user \in Users, staged \in BOOLEAN, removed \in BOOLEAN,
                  installed \in BOOLEAN :
              LET r == install_polkit_rule(rule_file, ValidUser(user), staged, pkexec,
                                           removed, installed)
              IN /\ rule_file' = r.rule_file
                 /\ IF ~r.ok THEN Done(user, perm.perms_fixed, conf, r.cm, r.err)
                    ELSE \E raised \in BOOLEAN :
                        IF ~raised
                        THEN Done(user, TRUE, [conf EXCEPT !.polkit_rule = TRUE], r.cm,
                                  "fixperms_ok")
                        ELSE Done(user, perm.perms_fixed, conf, r.cm, "exception")
    /\ IF last'.result \in {"fixperms_exists", "fixperms_ok"}
       THEN Show(set_main_enabled(TRUE, loop_device, mount_point))
       ELSE UNCHANGED widgets

\* on_language_changed -> apply_language: the permissions button is
\* refreshed, which sets the main widgets from has_permission_rules; the
\* language is written to the config (the write can raise) and
\* update_ready_status refreshes the widgets once more
OnLanguageChanged ==
    /\ running
    /\ box_prefs
    /\ UNCHANGED aux_vars
    /\ UNCHANGED <<running, auto_unmount_on_exit, rule_file, pkexec, udisksctl>>
    /\ LET perm == has_permission_rules(perms_fixed, conf, rule_file)
       IN /\ Show(set_main_enabled(perm.result, loop_device, mount_point))
          /\ \E raised \in BOOLEAN :
               Commit(perm.perms_fixed, OsState(loops, mounts), loop_device, mount_device,
                      mount_point, mounted_isos, conf, <<>>,
                      Last("on_language_changed", None,
                           IF raised THEN "exception" ELSE "ok", None))

\* on_mounted_item_selected: the record of the clicked row of the mounted
\* list becomes the current mount
OnMountedItemSelected ==
    /\ running
    /\ mounted_isos # <<>>
    /\ UNCHANGED aux_vars
    /\ UNCHANGED widgets
    /\ UNCHANGED <<running, auto_unmount_on_exit, rule_file, pkexec, udisksctl>>
    /\ \E i \in DOMAIN mounted_isos :
         Commit(perms_fixed, OsState(loops, mounts), mounted_isos[i].loop_device,
                mounted_isos[i].mount_device, mounted_isos[i].mount_point,
                mounted_isos, conf, <<>>,
                Last("on_mounted_item_selected", mounted_isos[i].iso_path, "ok", None))

(***************************************************************************)
(* Options and exit.                                                       *)
(***************************************************************************)
\* on_auto_unmount_changed: the checkbox flips the option and persists it
OnAutoUnmountChanged ==
    /\ running
    /\ UNCHANGED aux_vars
    /\ UNCHANGED widgets
    /\ UNCHANGED <<running, rule_file, pkexec, udisksctl>>
    /\ auto_unmount_on_exit' = ~auto_unmount_on_exit
    /\ \E raised \in BOOLEAN :
        Commit(perms_fixed, OsState(loops, mounts), loop_device, mount_device,
               mount_point, mounted_isos,
               IF raised THEN conf
               ELSE [conf EXCEPT !.auto_unmount_on_exit = ~auto_unmount_on_exit],
               <<>>,
               Last("on_auto_unmount_changed", None,
                    IF raised THEN "exception" ELSE "ok", None))

\* the commands _do_auto_unmount issues: for every record, then once more for
\* the current single mount
RECURSIVE RecordCmds(_)
RecordCmds(isos) ==
    IF isos = <<>> THEN <<>>
    ELSE (IF Truthy(Head(isos).mount_device)
          THEN <<[cmd |-> "unmount", arg |-> Head(isos).mount_device]>> ELSE <<>>)
         \o (IF Truthy(Head(isos).loop_device)
             THEN <<[cmd |-> "loop-delete", arg |-> Head(isos).loop_device]>> ELSE <<>>)
         \o RecordCmds(Tail(isos))
AutoUnmountCmds(isos, ld, md) ==
    RecordCmds(isos)
        \o (IF Truthy(ld)
            THEN (IF Truthy(md) THEN <<[cmd |-> "unmount", arg |-> md]>> ELSE <<>>)
                 \o <<[cmd |-> "loop-delete", arg |-> ld]>>
            ELSE <<>>)

\* run a list of unmount / loop-delete commands, ignoring their exit codes
RECURSIVE RunAll(_, _, _, _, _)
RunAll(os, todo, oks, i, log) ==
    IF i > Len(todo) THEN [os |-> os, log |-> log]
    ELSE LET r == IF todo[i].cmd = "unmount" THEN ExecUnmount(os, todo[i].arg, oks[i])
                  ELSE ExecLoopDelete(os, todo[i].arg, oks[i])
         IN RunAll(r.os, todo, oks, i + 1, Append(log, Cmd(todo[i].cmd, todo[i].arg, r.rc)))

\* _do_auto_unmount's guard
AutoUnmountWanted(opt) == opt

\* the process is gone: its memory is gone with it
ProcessGone ==
    /\ running' = FALSE
    /\ perms_fixed' = FALSE
    /\ auto_unmount_on_exit' = TRUE
    /\ mounted_isos' = <<>>
    /\ loop_device' = None
    /\ mount_device' = None
    /\ mount_point' = None
    /\ Show([btn_mount |-> FALSE, btn_unmount |-> FALSE, box_prefs |-> FALSE])

\* app.quit: aboutToQuit runs _do_auto_unmount, then the process ends; the
\* history keeps the registry the process had
Quit ==
    /\ running
    /\ UNCHANGED aux_vars
    /\ ProcessGone
    /\ UNCHANGED <<conf, rule_file, pkexec, udisksctl>>
    /\ IF AutoUnmountWanted(auto_unmount_on_exit) /\ udisksctl
       THEN LET todo == AutoUnmountCmds(mounted_isos, loop_device, mount_device)
            IN \E r \in {RunAll(OsState(loops, mounts), todo, oks, 1, <<>>) :
                              oks \in [DOMAIN todo -> BOOLEAN]} :
                   /\ loops' = r.os.loops
                   /\ mounts' = r.os.mounts
                   /\ cmds' = r.log
                   /\ last' = Last("quit", mounted_isos, "auto_unmount", None)
       ELSE /\ UNCHANGED <<loops, mounts>>
            /\ cmds' = <<>>
            /\ last' = Last("quit", mounted_isos,
                            IF AutoUnmountWanted(auto_unmount_on_exit)
                            THEN "no_tool" ELSE "kept", None)

(***************************************************************************)
(* The environment.                                                        *)
(***************************************************************************)
\* the process is killed or crashes: no handler runs
Kill ==
    /\ running
    /\ UNCHANGED aux_vars
    /\ ProcessGone
    /\ UNCHANGED <<conf, rule_file, pkexec, udisksctl, loops, mounts>>
    /\ cmds' = <<>>
    /\ last' = Last("kill", None, "ok", None)

\* the process is killed inside do_mount, after loop-setup returned with
\* exit code 0: before the mount (at 1), after the mount of the resolved
\* device and before last_mount is written (at 2), or after that write and
\* before the handler returns (at 3).  What the tools did stays done; what
\* the process held in memory is gone.
DoMountCrash ==
    /\ running
    /\ btn_mount
    /\ UNCHANGED aux_vars
    /\ ProcessGone
    /\ UNCHANGED <<rule_file, pkexec, udisksctl>>
    /\ has_permission_rules(perms_fixed, conf, rule_file).result
    /\ ~AlreadyMounted(loop_device, mount_point)
    /\ udisksctl
    /\ \E text \in IsoInputs, ws \in SetupWishes, at \in 1..3 :
       \E iso \in {Strip(text)} \cap Files :
       \E ls \in {ExecLoopSetup(OsState(loops, mounts), iso, ws)} :
       \E dev \in {ParseLoopDevice(ls.out)} :
        LET c1 == <<CmdOut("loop-setup", iso, ls.rc, ls.out)>>
            Gone(os, cf, cm) ==
                /\ loops' = os.loops
                /\ mounts' = os.mounts
                /\ conf' = cf
                /\ cmds' = cm
                /\ last' = Last("do_mount_crash", text, "crashed", ls.dev)
        IN /\ ls.rc = 0
           /\ IF at = 1 THEN Gone(ls.os, conf, c1)
              ELSE /\ Truthy(dev)
                   /\ \E lf \in BOOLEAN :
                      \E fs \in {LsblkFstype(ls.os, dev, lf)} :
                      \E mount_dev \in {pick_mountable_block(dev, fs)} :
                      \E r2 \in {ExecMount(ls.os, mount_dev, TRUE)} :
                      \E mp \in {RecordedMountPoint(r2.out)} :
                       LET c2 == c1 \o SettleCmds(dev, <<"ok", "ok", "ok">>)
                                    \o <<Cmd("lsblk-fstype", dev, fs.rc),
                                         Cmd("mount", mount_dev, r2.rc)>>
                       IN /\ r2.rc = 0
                          /\ Gone(r2.os,
                                  IF at = 2 THEN conf
                                  ELSE [conf EXCEPT
                                            !.last_mount = MountInfo(iso, dev, mount_dev, mp)],
                                  c2)

\* the machine restarts while no process runs: loop devices and mounts vanish
Reboot ==
    /\ ~running
    /\ UNCHANGED aux_vars
    /\ UNCHANGED widgets
    /\ DOMAIN loops # {} \/ mounts # {}
    /\ loops' = [d \in {} |-> <<>>]
    /\ mounts' = {}
    /\ UNCHANGED <<running, perms_fixed, auto_unmount_on_exit, mounted_isos, loop_device,
                   mount_device, mount_point, conf, rule_file, pkexec, udisksctl>>
    /\ cmds' = <<>>
    /\ last' = Last("reboot", None, "ok", None)

\* the rule file is removed from outside (an administrator, a package)
ExtRemoveRule ==
    /\ rule_file # "absent"
    /\ UNCHANGED aux_vars
    /\ UNCHANGED widgets
    /\ rule_file' = "absent"
    /\ UNCHANGED <<running, perms_fixed, auto_unmount_on_exit, mounted_isos, loop_device,
                   mount_device, mount_point, conf, pkexec, udisksctl, loops, mounts>>
    /\ cmds' = <<>>
    /\ last' = Last("rule_removed", None,
                     IF running /\ conf.polkit_rule /\ polkit_rule_present(rule_file)
                     THEN "was_configured" ELSE "ok", None)

\* a file without the ownership marker appears at the rule path (another
\* package, an administrator, a write that was cut short)
ExtForeignRule ==
    /\ rule_file = "absent"
    /\ UNCHANGED aux_vars
    /\ UNCHANGED widgets
    /\ rule_file' = "foreign"
    /\ UNCHANGED <<running, perms_fixed, auto_unmount_on_exit, mounted_isos, loop_device,
                   mount_device, mount_point, conf, pkexec, udisksctl, loops, mounts>>
    /\ cmds' = <<>>
    /\ last' = Last("rule_foreign", None, "ok", None)

Next ==
    \/ Startup
    \/ DoMount
    \/ DoUnmount
    \/ OnFixPermissions
    \/ OnAutoUnmountChanged
    \/ OnLanguageChanged
    \/ OnMountedItemSelected
    \/ Quit
    \/ Kill
    \/ DoMountCrash
    \/ Reboot
    \/ ExtRemoveRule

Spec == Init /\ [][Next]_vars
(***************************************************************************)
(* The config store, step by step: write_conf as the sequence of its file  *)
(* operations (mkdir, backup copy, temp write, replace, cleanup), a crash  *)
(* of the process between any two of them, and read_conf.                  *)
(***************************************************************************)
\* a file name with a quote and a backslash in it
OddIso == <<"/", "a", Quote, "b", Backslash, ".", "i", "s", "o">>

\* {"theme": "Dark"}
DocA == JDict(<<Member(<<"t", "h", "e", "m", "e">>, JStr(<<"D", "a", "r", "k">>))>>)
\* {"polkit_rule": true, "last_mount": {"iso_path": ...}, "recent_files": [...]}
DocB ==
    JDict(<<Member(<<"p", "o", "l", "k", "i", "t", "_", "r", "u", "l", "e">>, JBool(TRUE)),
            Member(<<"l", "a", "s", "t", "_", "m", "o", "u", "n", "t">>,
                   JDict(<<Member(<<"i", "s", "o", "_", "p", "a", "t", "h">>, JStr(OddIso))>>)),
            Member(<<"r", "e", "c", "e", "n", "t", "_", "f", "i", "l", "e", "s">>,
                   JList(<<JStr(OddIso), JStr(IsoA)>>))>>)
Docs == {DocA, DocB}

MountIdle ==
    /\ running = FALSE
    /\ perms_fixed = FALSE
    /\ auto_unmount_on_exit = TRUE
    /\ mounted_isos = <<>>
    /\ loop_device = None
    /\ mount_device = None
    /\ mount_point = None
    /\ btn_mount = FALSE
    /\ btn_unmount = FALSE
    /\ box_prefs = FALSE
    /\ conf = EmptyConf
    /\ rule_file = "absent"
    /\ loops = [d \in {} |-> <<>>]
    /\ mounts = {}
    /\ pkexec = FALSE
    /\ udisksctl = FALSE
    /\ cmds = <<>>
    /\ last = Last("init", None, "ok", None)

InitConf ==
    /\ MountIdle
    /\ cfs \in {Cfs(p, b, t) :
                    p \in {Missing, Unreadable, File(<<"{", "x">>)}
                            \cup {File(Dumps(d)) : d \in Docs},
                    b \in {Missing, Unreadable, File(<<"{", "x">>)}
                            \cup {File(Dumps(d)) : d \in Docs},
                    t \in {Missing, File(Truncated(Dumps(DocB)))}}
    /\ wr = Frame("idle", EmptyDoc, cfs)
    /\ ev = Event("none", "none", EmptyDoc)
    /\ fn = FnCall("none", <<>>, <<>>)

\* a replace that copies the text over the target piece by piece
ReplacedInPlace(f, ok) ==
    IF ok THEN Cfs(f.tmp, f.bak, Missing)
    ELSE Cfs(File(Truncated(f.tmp.text)), f.bak, f.tmp)

\* temp_file.replace(CONF_FILE): an atomic rename, all or nothing
Replaced(f, ok) == IF ok THEN Cfs(f.tmp, f.bak, Missing) ELSE f

\* a handler that re-raises without removing the temporary file
CleanedUpNothing(f, removed) == f

\* the except branch of write_conf: if temp_file.exists(): temp_file.unlink()
CleanedUp(f, removed) ==
    IF Exists(f.tmp) /\ removed THEN Cfs(f.primary, f.bak, Missing) ELSE f

\* a backup step whose failure escapes
BackupEscapes(outcome) == outcome # "copied"

\* the except (OSError, shutil.Error): pass around the backup copy
BackupRaises(outcome) == FALSE

\* write_conf(data) is called: CONF_DIR.mkdir(parents=True, exist_ok=True),
\* which can only fail while the directory does not exist yet
WriteConfCall ==
    /\ wr.pc = "idle"
    /\ UNCHANGED <<mount_vars, fn, cfs>>
    /\ \E data \in Docs, made \in BOOLEAN :
        IF ~made /\ cfs = Cfs(Missing, Missing, Missing)
        THEN /\ wr' = Frame("idle", data, cfs)
             /\ ev' = Event("write_conf", "raised", data)
        ELSE /\ wr' = Frame("backup", data, cfs)
             /\ ev' = Event("write_conf", "running", data)

\* if CONF_FILE.exists(): shutil.copy2(CONF_FILE, backup_file); the copy can
\* fail before it opens the backup or after it has written part of it
WriteBackup ==
    /\ wr.pc = "backup"
    /\ UNCHANGED <<mount_vars, fn>>
    /\ IF Exists(cfs.primary)
       THEN \E outcome \in {"copied", "failed", "truncated"} :
             /\ outcome # "failed" => cfs.primary.st = "file"
             /\ cfs' = [cfs EXCEPT !.bak =
                           CASE outcome = "copied" -> File(cfs.primary.text)
                             [] outcome = "truncated" -> File(Truncated(cfs.primary.text))
                             [] OTHER -> @]
             /\ IF BackupRaises(outcome)
                THEN /\ wr' = [wr EXCEPT !.pc = "idle"]
                     /\ ev' = Event("write_conf", "raised", wr.data)
                ELSE /\ wr' = [wr EXCEPT !.pc = "write"]
                     /\ UNCHANGED ev
       ELSE /\ wr' = [wr EXCEPT !.pc = "write"]
            /\ UNCHANGED <<cfs, ev>>

\* temp_file.write_text(json.dumps(data, indent=2, ensure_ascii=False))
WriteTemp ==
    /\ wr.pc = "write"
    /\ UNCHANGED <<mount_vars, fn, ev>>
    /\ \E outcome \in {"written", "failed", "truncated"} :
        /\ cfs' = [cfs EXCEPT !.tmp =
                      CASE outcome = "written" -> File(Dumps(wr.data))
                        [] outcome = "truncated" -> File(Truncated(Dumps(wr.data)))
                        [] OTHER -> @]
        /\ wr' = [wr EXCEPT !.pc = IF outcome = "written" THEN "replace" ELSE "cleanup"]

\* temp_file.replace(CONF_FILE)
WriteReplace ==
    /\ wr.pc = "replace"
    /\ UNCHANGED <<mount_vars, fn>>
    /\ \E ok \in BOOLEAN :
        /\ cfs' = Replaced(cfs, ok)
        /\ IF ok
           THEN /\ wr' = [wr EXCEPT !.pc = "idle"]
                /\ ev' = Event("write_conf", "returned", wr.data)
           ELSE /\ wr' = [wr EXCEPT !.pc = "cleanup"]
                /\ UNCHANGED ev

\* except Exception as e: remove the temp file if it exists, raise e; when
\* the unlink itself fails its error is the one that escapes
WriteCleanup ==
    /\ wr.pc = "cleanup"
    /\ UNCHANGED <<mount_vars, fn>>
    /\ \E removed \in BOOLEAN :
        /\ cfs' = CleanedUp(cfs, removed)
        /\ wr' = [wr EXCEPT !.pc = "idle"]
        /\ ev' = Event("write_conf",
                       IF Exists(cfs.tmp) /\ ~removed THEN "raised_in_cleanup" ELSE "raised",
                       wr.data)

\* the process dies inside write_conf; a copy or a write that was under way
\* stops where it is
WriteCrash ==
    /\ wr.pc # "idle"
    /\ UNCHANGED <<mount_vars, fn>>
    /\ wr' = [wr EXCEPT !.pc = "idle"]
    /\ ev' = Event("crash", wr.pc, wr.data)
    /\ \E midway \in BOOLEAN :
        cfs' = IF ~midway THEN cfs
               ELSE IF wr.pc = "backup" /\ cfs.primary.st = "file"
               THEN [cfs EXCEPT !.bak = File(Truncated(cfs.primary.text))]
               ELSE IF wr.pc = "write"
               THEN [cfs EXCEPT !.tmp = File(Truncated(Dumps(wr.data)))]
               ELSE cfs

\* read_conf(), by this process between two calls or by another one at any
\* step of a write
ReadConf ==
    /\ UNCHANGED <<mount_vars, fn, cfs, wr>>
    /\ \E r \in {read_conf(cfs.primary, cfs.bak)} :
        ev' = Event("read_conf", IF r.raised THEN "raised" ELSE "returned", r.v)

NextConf ==
    \/ WriteConfCall
    \/ WriteBackup
    \/ WriteTemp
    \/ WriteReplace
    \/ WriteCleanup
    \/ WriteCrash
    \/ ReadConf

SpecConf == InitConf /\ [][NextConf]_vars

(***************************************************************************)
(* Uninstall and its failsafe unmount.  Both run in whichever process       *)
(* uninstalls: `NMount --uninstall' from a shell, with or without a window *)
(* open, or the window's own uninstall button.                             *)
(***************************************************************************)
\* umount <mp>: fails when nothing is mounted there or the caller may not
ExecUmountPath(os, mp, ok) ==
    IF ok /\ is_path_mounted(mp, os.mounts)
    THEN [rc |-> 0, os |-> OsState(os.loops, {m \in os.mounts : m.mp # mp})]
    ELSE [rc |-> 1, os |-> os]

\* a failsafe that takes every recorded mount point for mounted
UnmountWantedAlways(mp, mnts) == TRUE

\* best_effort_unmount_if_needed's "is it mounted?" test, negated: the
\* unmount is tried unless a mount point is recorded and is not mounted
UnmountWanted(mp, mnts) == ~(Truthy(mp) /\ ~is_path_mounted(mp, mnts))

\* the loop deletion of best_effort_unmount_if_needed: udisksctl loop-delete
\* when udisksctl was found, else losetup -d when losetup was found
BestEffortLoopDelete(os, loop_dev, has_udisksctl, has_losetup, ok, log) ==
    IF Truthy(loop_dev) /\ (has_udisksctl \/ has_losetup)
    THEN LET r == ExecLoopDelete(os, loop_dev, ok)
         IN [os |-> r.os,
             log |-> Append(log, Cmd(IF has_udisksctl THEN "loop-delete" ELSE "losetup-d",
                                     loop_dev, r.rc))]
    ELSE [os |-> os, log |-> log]

\* the unmount of best_effort_unmount_if_needed: udisksctl unmount of the
\* mount device, umount of the mount point when that fails or when there is
\* no udisksctl
BestEffortUnmountStep(os, mdev, mp, has_udisksctl, oks) ==
    IF Truthy(mdev) /\ has_udisksctl
    THEN LET r == ExecUnmount(os, mdev, oks[1])
         IN IF r.rc # 0 /\ Truthy(mp)
            THEN LET u == ExecUmountPath(r.os, mp, oks[2])
                 IN [os |-> u.os,
                     log |-> <<Cmd("unmount", mdev, r.rc), Cmd("umount", mp, u.rc)>>]
            ELSE [os |-> r.os, log |-> <<Cmd("unmount", mdev, r.rc)>>]
    ELSE IF Truthy(mp)
    THEN LET u == ExecUmountPath(os, mp, oks[2])
         IN [os |-> u.os, log |-> <<Cmd("umount", mp, u.rc)>>]
    ELSE [os |-> os, log |-> <<>>]

\* best_effort_unmount_if_needed once read_conf has returned `lm' as the
\* last_mount: the OS state it leaves and the commands it ran
best_effort_unmount_if_needed(os, lm, has_udisksctl, has_losetup, oks) ==
    LET mp == lm.mount_point
        loop_dev == lm.loop_device
        mdev == IF Truthy(lm.mount_device) THEN lm.mount_device ELSE loop_dev
    IN IF ~Truthy(mp) /\ ~Truthy(loop_dev) THEN [os |-> os, log |-> <<>>]
       ELSE IF ~UnmountWanted(mp, os.mounts)
       THEN BestEffortLoopDelete(os, loop_dev, has_udisksctl, has_losetup, oks[3], <<>>)
       ELSE LET u == BestEffortUnmountStep(os, mdev, mp, has_udisksctl, oks)
            IN BestEffortLoopDelete(u.os, loop_dev, has_udisksctl, has_losetup, oks[3],
                                    u.log)

\* every way a call can end, over what the environment lets its three
\* commands do and over whether losetup was found on the caller's PATH
BestEffortOutcomes(os, lm, has_udisksctl) ==
    {best_effort_unmount_if_needed(os, lm, has_udisksctl, has_losetup, oks) :
        has_losetup \in BOOLEAN, oks \in [1..3 -> BOOLEAN]}

\* a call of best_effort_unmount_if_needed by itself; `unreadable' is a
\* primary config file whose read raises
BestEffortUnmount ==
    /\ UNCHANGED aux_vars
    /\ UNCHANGED widgets
    /\ UNCHANGED <<running, perms_fixed, auto_unmount_on_exit, mounted_isos, loop_device,
                   mount_device, mount_point, conf, rule_file, pkexec, udisksctl>>
    /\ \E unreadable \in BOOLEAN :
        IF unreadable
        THEN /\ UNCHANGED <<loops, mounts>>
             /\ cmds' = <<>>
             /\ last' = Last("best_effort_unmount_if_needed", None, "conf_unreadable", None)
        ELSE \E r \in BestEffortOutcomes(OsState(loops, mounts), conf.last_mount, udisksctl) :
                /\ loops' = r.os.loops
                /\ mounts' = r.os.mounts
                /\ cmds' = r.log
                /\ last' = Last("best_effort_unmount_if_needed", None, "ok", None)

\* an uninstall that removes the rule before it tries the failsafe unmount
UninstallLogRuleFirst(failsafe, rule, reset) == rule \o failsafe \o reset

\* the order of uninstall_self: best_effort_unmount_if_needed() first, then
\* the removal of the rule file, and write_conf(new_conf) last
UninstallLog(failsafe, rule, reset) == failsafe \o rule \o reset

\* uninstall_self: failsafe unmount, removal of the rule file (pkexec rm -f,
\* or an unlink of its own when there is no pkexec), config reset.  The
\* autostart entry, the installed files and their directories are removed
\* in between, each under its own except OSError.  The write_conf(new_conf)
\* that ends it is not guarded: when it raises, uninstall_self raises.
UninstallSelf ==
    /\ UNCHANGED aux_vars
    /\ UNCHANGED widgets
    /\ UNCHANGED <<running, perms_fixed, auto_unmount_on_exit, mounted_isos, loop_device,
                   mount_device, mount_point, pkexec, udisksctl>>
    /\ \E unreadable \in BOOLEAN :
        IF unreadable
        THEN /\ UNCHANGED <<loops, mounts, conf, rule_file>>
             /\ cmds' = <<>>
             /\ last' = Last("uninstall_self", None, "conf_unreadable", None)
        ELSE \E r \in BestEffortOutcomes(OsState(loops, mounts), conf.last_mount, udisksctl),
                removed \in BOOLEAN, raised \in BOOLEAN :
                /\ loops' = r.os.loops
                /\ mounts' = r.os.mounts
                /\ rule_file' = IF removed THEN "absent" ELSE rule_file
                /\ cmds' = UninstallLog(
                              r.log,
                              IF pkexec
                              THEN <<Cmd("pkexec-rm", None, IF removed THEN 0 ELSE 1)>>
                              ELSE IF polkit_rule_present(rule_file)
                              THEN <<Cmd("unlink-rule", None, IF removed THEN 0 ELSE 1)>>
                              ELSE <<>>,
                              <<Cmd("write_conf", None, IF raised THEN 1 ELSE 0)>>)
                /\ IF raised
                   THEN /\ conf' = conf
                        /\ last' = Last("uninstall_self", None, "exception", None)
                   ELSE /\ conf' = EmptyConf
                        /\ last' = Last("uninstall_self", None, "ok", None)

NextCleanup ==
    \/ Next
    \/ BestEffortUnmount
    \/ UninstallSelf

SpecCleanup == Init /\ [][NextCleanup]_vars

\* mounting on machines where the helpers are missing, fail or hang
NextSettle ==
    \/ Startup
    \/ OnFixPermissions
    \/ DoMountWith(SettleOutcomes)
    \/ DoUnmount
    \/ Kill

SpecSettle == Init /\ [][NextSettle]_vars

\* the permission machine by itself, on a system where the rule path can
\* come to hold a file that is not the program's
NextRule ==
    \/ Startup
    \/ OnFixPermissions
    \/ OnLanguageChanged
    \/ Quit
    \/ Kill
    \/ ExtRemoveRule
    \/ ExtForeignRule

SpecRule == Init /\ [][NextRule]_vars

(***************************************************************************)
(* The parsers by themselves.  pick_mountable_block over the listings      *)
(* lsblk can print for a loop device: one line per block device, in any    *)
(* order, each with its filesystem type or with none.  do_mount's parse of *)
(* the mount point over the outputs udisksctl mount can print.             *)
(* add_to_recent_files over sequences of calls from the empty list.        *)
(***************************************************************************)
MaxListed == 3
\* (the first column: a filesystem type for FSTYPE,PATH, a device type for
\* TYPE,PATH)
ListedTypes ==
    {"iso9660", "udf", "vfat", "squashfs", "ext4", "ext3", "ext2", "ntfs", "LVM2_member",
     "-", "loop", "part"}
\* a line after split(): FSTYPE and PATH, or PATH alone for a device
\* without a filesystem
ListedLines ==
    LET paths == {LoopDev(0), Part(LoopDev(0), "1"), Part(LoopDev(0), "2")}
    IN {<<t, p>> : t \in ListedTypes, p \in paths} \cup {<<p>> : p \in paths}
Listings ==
    UNION {{l \in [1..n -> ListedLines] :
                \A i, j \in 1..n : i # j => l[i][Len(l[i])] # l[j][Len(l[j])]} :
           n \in 0..MaxListed}

\* the words the mount tool can print: its usual ones, mount points under
\* each known root and elsewhere, with and without trailing punctuation
MaxTokens == 4
OutputTokens ==
    {W_Mounted, LoopDev(0), W_at, <<".">>,
     RunMedia \o <<"u", "/", "I", ".">>,
     Media \o <<"I", ";">>,
     Mnt \o <<"x">>,
     <<"/", "m", "n", "t", ".">>,
     <<"/", "h", "/", "I", ".">>}
TokenLists == UNION {[1..n -> OutputTokens] : n \in 0..MaxTokens}

\* a recent-files update that does not look for the path in the list
add_to_recent_files_unchecked(recent, filepath, max_items) ==
    LET added == <<filepath>> \o recent
    IN SubSeq(added, 1, IF max_items < Len(added) THEN max_items ELSE Len(added))

\* add_to_recent_files: the list it hands to write_conf
add_to_recent_files(recent, filepath, max_items) ==
    LET removed ==
            IF filepath \in Range(recent)
            THEN LET idx == CHOOSE i \in DOMAIN recent :
                                /\ recent[i] = filepath
                                /\ \A j \in 1..(i - 1) : recent[j] # filepath
                 IN SubSeq(recent, 1, idx - 1) \o SubSeq(recent, idx + 1, Len(recent))
            ELSE recent
        added == <<filepath>> \o removed
    IN SubSeq(added, 1, IF max_items < Len(added) THEN max_items ELSE Len(added))

\* the default of max_items, and the values the calls are checked with
DefaultMaxItems == 10
MaxItemsDrawn == {2, 3, DefaultMaxItems}

\* a call of add_to_recent_files on the persisted list the call before it
\* left (the empty list at first); when write_conf raises the list stays
AddToRecentFiles ==
    /\ fn.name \in {"recent_files", "add_to_recent_files"}
    /\ UNCHANGED <<mount_vars, cfs, wr, ev>>
    /\ \E filepath \in {IsoA, IsoB, IsoC, OddIso}, raised \in BOOLEAN :
        fn' = FnCall("add_to_recent_files",
                     [filepath |-> filepath, max_items |-> fn.inp.max_items,
                      recent |-> fn.out, raised |-> raised],
                     IF raised THEN fn.out
                     ELSE add_to_recent_files(fn.out, filepath, fn.inp.max_items))

InitPick ==
    /\ MountIdle
    /\ cfs = Cfs(Missing, Missing, Missing)
    /\ wr = Frame("idle", EmptyDoc, Cfs(Missing, Missing, Missing))
    /\ ev = Event("none", "none", EmptyDoc)
    /\ \/ \E rc \in {0, 1}, lines \in Listings :
            fn = FnCall("lsblk", [rc |-> rc, lines |-> lines], <<>>)
       \/ \E parts \in TokenLists : fn = FnCall("mount_output", parts, <<>>)
       \/ \E m \in MaxItemsDrawn : fn = FnCall("recent_files", [max_items |-> m], <<>>)

\* pick_mountable_block(/dev/loop0) with the lsblk outcome drawn
PickMountableBlock ==
    /\ fn.name = "lsblk"
    /\ fn' = FnCall("pick_mountable_block", fn.inp, pick_mountable_block(LoopDev(0), fn.inp))
    /\ UNCHANGED <<mount_vars, cfs, wr, ev>>

\* do_mount's parse of the words of a successful mount's output
ParseMountOutput ==
    /\ fn.name = "mount_output"
    /\ fn' = FnCall("mount_point", fn.inp, RecordedMountPoint(fn.inp))
    /\ UNCHANGED <<mount_vars, cfs, wr, ev>>

\* list_child_partitions(/dev/loop0) with the lsblk outcome drawn
ListChildPartitions ==
    /\ fn.name = "lsblk"
    /\ fn' = FnCall("list_child_partitions", fn.inp, list_child_partitions(fn.inp))
    /\ UNCHANGED <<mount_vars, cfs, wr, ev>>

NextPick ==
    \/ PickMountableBlock
    \/ ListChildPartitions
    \/ ParseMountOutput
    \/ AddToRecentFiles

SpecPick == InitPick /\ [][NextPick]_vars

(***************************************************************************)
(* Properties.  `last' names the operation that produced a state and how   *)
(* it ended, `cmds' the external commands it issued, so a state predicate  *)
(* on them speaks about "when the operation returns" and a step with       *)
(* last'.op = "do_mount" is a step of do_mount.                            *)
(***************************************************************************)
os_now == OsState(loops, mounts)
perm_now == has_permission_rules(perms_fixed, conf, rule_file).result
LoopDeleteIssued(dev) ==
    \E i \in DOMAIN cmds : cmds[i].cmd = "loop-delete" /\ cmds[i].arg = dev
newest == mounted_isos[Len(mounted_isos)]

\* C1: when do_mount returns from an attempt in which loop-setup provisioned
\* a loop device, either the attempt reached Mounted (a record for that
\* device was added to the registry) or loop-delete was issued for the
\* provisioned device -- on every failure path after provisioning.
C1_RollbackAfterProvisioning ==
    (last.op = "do_mount" /\ Truthy(last.provisioned)) =>
        \/ mounted_isos # <<>> /\ newest.loop_device = last.provisioned
        \/ LoopDeleteIssued(last.provisioned)

\* C2: in every state of a running process, right after startup included,
\* has_permission_rules is true iff the persisted flag polkit_rule is set
\* and the rule file is present on disk.
C2_PermissionIffFlagAndFile ==
    running => (perm_now <=> (conf.polkit_rule /\ polkit_rule_present(rule_file)))

\* C3: the permission state is never cached: when the rule file is removed
\* from outside while the permission state was true (flag set, file present),
\* the next do_mount is refused: it issues no command and provisions no
\* loop device.
C3_RefusedAfterRuleRemoved ==
    [][(last.op = "rule_removed" /\ last.result = "was_configured"
            /\ last'.op = "do_mount")
          => (cmds' = <<>> /\ loops' = loops /\ last'.result # "mounted_to")]_vars

C5_MountDeviceIsLoopOrPartition ==
    (last.op = "do_mount" /\ last.result = "mounted_to") =>
        \/ newest.mount_device = newest.loop_device
        \/ newest.mount_device \in
               Range(list_child_partitions(LsblkType(os_now, newest.loop_device, TRUE)))

\* C6: do_unmount invokes unmount on the mounted device and only then
\* loop-delete on the loop device; when unmount fails loop-delete is not
\* invoked; when either step fails a distinct error is reported and the
\* current mount fields, the registry and the persisted last_mount are left
\* unchanged; only when both steps succeed is the record removed, the
\* current mount cleared and last_mount emptied.
C6_UnmountOrderAndFrame ==
    [][last'.op = "do_unmount" =>
        LET n == Len(cmds')
            frame == UNCHANGED <<loop_device, mount_device, mount_point,
                                 mounted_isos, conf>>
            bothOk == n = 2 /\ cmds'[1].rc = 0 /\ cmds'[2].rc = 0
        IN /\ n <= 2
           /\ n >= 1 => cmds'[1].cmd = "unmount" /\ cmds'[1].arg = mount_device
           /\ n = 2 => /\ cmds'[1].rc = 0
                       /\ cmds'[2].cmd = "loop-delete"
                       /\ cmds'[2].arg = loop_device
           /\ (n >= 1 /\ cmds'[1].rc # 0) =>
                  n = 1 /\ last'.result = "unmount_fail" /\ frame
           /\ (n = 2 /\ cmds'[2].rc # 0) =>
                  last'.result = "loop_delete_fail" /\ frame
           /\ ~frame => bothOk
           /\ last'.result = "unmount_ok" =>
                  /\ bothOk
                  /\ \A i \in DOMAIN mounted_isos' :
                         mounted_isos'[i].loop_device # loop_device
                  /\ loop_device' = None /\ mount_device' = None /\ mount_point' = None
                  /\ conf'.last_mount = NoMount
           /\ bothOk => last'.result \in {"unmount_ok", "exception"}]_vars

\* C6 witness: a do_unmount whose unmount step succeeded and whose
\* loop-delete step failed, with the record still in the registry.
C6_LoopDeleteFailed ==
    /\ last.op = "do_unmount"
    /\ last.result = "loop_delete_fail"
    /\ Len(cmds) = 2 /\ cmds[1].rc = 0 /\ cmds[2].rc # 0
    /\ mounted_isos # <<>>
    /\ Truthy(loop_device)

\* C7: at every quiescent point of a running process (after startup and
\* after each completed or failed mount or unmount) every record of the
\* registry is a filesystem that is mounted; nothing but the program
\* unmounts while it runs.
C7_RegistryRecordsAreMounted ==
    running => \A i \in DOMAIN mounted_isos :
                   mounted_isos[i].mount_device \in MountedDevs(os_now)

\* C8: after each completed do_mount, do_unmount and auto-unmount at exit the
\* persisted last_mount equals the active mount record and is empty when no
\* mount is active.
C8_LastMountMirrorsActive ==
    /\ (last.op = "do_mount" /\ last.result = "mounted_to") =>
           conf.last_mount = newest
    /\ (last.op = "do_unmount" /\ last.result = "unmount_ok") =>
           mounted_isos = <<>> /\ conf.last_mount = NoMount
    /\ (last.op = "quit" /\ last.result = "auto_unmount") =>
           \/ conf.last_mount = NoMount
           \/ conf.last_mount.mount_device \in MountedDevs(os_now)

\* C9: startup (restore_previous_mount) adopts the persisted last_mount as
\* the active record iff its mount point is in the live mount table and
\* otherwise leaves the registry empty and the current fields unset; either
\* way it issues no command and changes no loop device and no mount.
C9_RestoreAdoptsIffMounted ==
    [][(last'.op = "startup" /\ last'.result # "exception") =>
        LET lm == conf.last_mount IN
        /\ IF \E m \in mounts : m.mp = lm.mount_point
           THEN /\ mounted_isos' = <<lm>>
                /\ loop_device' = lm.loop_device
                /\ mount_device' = lm.mount_device
                /\ mount_point' = lm.mount_point
           ELSE /\ mounted_isos' = <<>>
                /\ loop_device' = None /\ mount_device' = None /\ mount_point' = None
        /\ cmds' = <<>>
        /\ UNCHANGED <<loops, mounts, conf>>]_vars

\* C9 witness: a startup that found the mount of the previous run still in
\* the mount table and adopted it.
C9_AdoptedAtStartup ==
    /\ last.op = "startup"
    /\ last.result = "restored_mount"
    /\ mounted_isos = <<conf.last_mount>>
    /\ is_path_mounted(mount_point, mounts)
    /\ cmds = <<>>

\* C10: the registry supports several simultaneous mounts: while image A,
\* mounted by this process, is the one record of the registry, a do_mount of
\* another regular file B in which no tool and no config write fails ends
\* with both records in the registry, A's first.
C10_SecondMountSucceeds ==
    [][(/\ last'.op = "do_mount"
        /\ Len(mounted_isos) = 1
        /\ mounted_isos[1].loop_device = loop_device
        /\ is_path_mounted(mounted_isos[1].mount_point, mounts)
        /\ perm_now
        /\ udisksctl
        /\ Strip(last'.arg) \in Files \ {mounted_isos[1].iso_path}
        /\ last'.result \notin {"loop_setup_fail", "no_loop_device", "mount_fail",
                                "exception"})
          => /\ Len(mounted_isos') = 2
             /\ mounted_isos'[1] = mounted_isos[1]
             /\ mounted_isos'[2].iso_path = Strip(last'.arg)]_vars

(***************************************************************************)
(* Properties of the config store, checked under SpecConf.  `ev' names    *)
(* the call or crash that produced the current state, `wr.old' the files  *)
(* as the newest write_conf call found them, `wr.data' the document it    *)
(* was given.                                                              *)
(***************************************************************************)
ValidFile(f) == f.st = "file" /\ Loads(f.text).ok
DocOf(f) == Loads(f.text).v

\* C11: a read_conf that follows a write_conf(c) that returned gives back c,
\* and a read_conf that follows a crash between the writing of the temporary
\* file and the replace gives back the document the primary held before the
\* call, when that was a valid one.
C11_WriteThenRead ==
    [][ev'.op = "read_conf"
       => /\ (ev.op = "write_conf" /\ ev.result = "returned")
                => (ev'.result = "returned" /\ ev'.v = ev.v)
          /\ (ev.op = "crash" /\ ev.result = "replace" /\ ValidFile(wr.old.primary))
                => (ev'.result = "returned" /\ ev'.v = DocOf(wr.old.primary))]_vars

\* C11 witness: write_conf replaced a primary holding DocA by DocB, whose
\* strings need escaping, and the read that followed returned DocB.
C11_ReadBackAfterWrite ==
    /\ ev = Event("read_conf", "returned", DocB)
    /\ wr.pc = "idle"
    /\ wr.data = DocB
    /\ wr.old.primary = File(Dumps(DocA))
    /\ cfs.primary = File(Dumps(DocB))

Corrupt(f) == f.st = "file" /\ ~Loads(f.text).ok

\* C12: read_conf never fails, whatever the primary and the .bak file are
\* (missing, unreadable, corrupt or valid): a valid primary is returned; when
\* the primary is unreadable or corrupt the backup's document is returned if
\* the backup is valid; when neither can be used the empty document is
\* returned.
C12_ReadConfNeverFails ==
    [][(ev'.op = "read_conf" /\ wr' = wr)
       => /\ ev'.result = "returned"
          /\ ValidFile(cfs.primary) => ev'.v = DocOf(cfs.primary)
          /\ ((cfs.primary.st = "unreadable" \/ Corrupt(cfs.primary)) /\ ValidFile(cfs.bak))
                => ev'.v = DocOf(cfs.bak)
          /\ (~ValidFile(cfs.primary) /\ ~ValidFile(cfs.bak)) => ev'.v = EmptyDoc]_vars

\* C13: at every step of write_conf, and after a crash at any step, the
\* primary file holds either exactly what it held when the call started or
\* the complete text of the new document, never a part of either.
C13_PrimaryOldOrNew ==
    \/ cfs.primary = wr.old.primary
    \/ cfs.primary = File(Dumps(wr.data))

\* C13 witness: the process died while the temporary file was half
\* written; the primary still holds the previous valid document.
C13_CrashedMidWrite ==
    /\ ev.op = "crash"
    /\ ev.result = "write"
    /\ cfs.tmp = File(Truncated(Dumps(wr.data)))
    /\ ValidFile(cfs.primary)
    /\ DocOf(cfs.primary) # wr.data
    /\ cfs.primary = wr.old.primary

InstallCalled(l) == l.op = "on_fix_permissions" /\ l.result # "fixperms_exists"
InstallerInvoked(cm) == \E i \in 1..Len(cm) : cm[i].cmd = "pkexec-install"
InstallSucceeded(l, rf) ==
    /\ InstallCalled(l)
    /\ l.result \in {"fixperms_ok", "exception"}
    /\ polkit_rule_present(rf)

\* C16 as stated: of two install_polkit_rule calls in a row, the second
\* returns success without invoking the privileged installer, so that the
\* installer is invoked at most once in total.
C16_SecondCallIsNoOp ==
    [][(InstallCalled(last) /\ InstallCalled(last'))
       => /\ ~InstallerInvoked(cmds')
          /\ InstallSucceeded(last', rule_file')]_vars

\* C16, amended: of two install_polkit_rule calls in a row of which the
\* first returned success, the second returns success without invoking the
\* privileged installer, so that the installer is invoked at most once in
\* total.
C16_SecondCallAfterSuccessIsNoOp ==
    [][(InstallSucceeded(last, rule_file) /\ InstallCalled(last'))
       => /\ ~InstallerInvoked(cmds')
          /\ InstallSucceeded(last', rule_file')]_vars

\* C16 witness: install_polkit_rule found the rule file in place, returned
\* success without a command, and on_fix_permissions recorded the flag.
C16_ReturnedAtOnce ==
    /\ last.op = "on_fix_permissions"
    /\ last.result = "fixperms_ok"
    /\ cmds = <<>>
    /\ rule_file = "managed"
    /\ conf.polkit_rule

InstallerFailed(cm) ==
    \E i \in 1..Len(cm) : cm[i].cmd = "pkexec-install" /\ cm[i].rc # 0

\* C17: an install_polkit_rule call made while the rule is not installed and
\* pkexec is unavailable returns failure together with the manual command,
\* which on_fix_permissions shows to the user; in that case, and when the
\* installer exits non-zero, the persisted flag polkit_rule is not set and
\* the permission state stays false.
C17_NoPkexecGivesManualCommand ==
    [][(InstallCalled(last') /\ rule_file = "absent")
       => /\ ~pkexec => last'.result = "fixperms_need_pkexec"
          /\ (~pkexec \/ InstallerFailed(cmds'))
                => /\ conf'.polkit_rule = conf.polkit_rule
                   /\ ~perm_now']_vars

(***************************************************************************)
(* Properties of the cleanup paths, checked under SpecCleanup.             *)
(***************************************************************************)
\* the recorded last_mount names a mount point that is not mounted and a
\* loop device
StaleLastMount ==
    /\ Truthy(conf.last_mount.mount_point)
    /\ ~is_path_mounted(conf.last_mount.mount_point, mounts)
    /\ Truthy(conf.last_mount.loop_device)
\* a step of best_effort_unmount_if_needed that got its last_mount
BestEffortStep ==
    /\ last'.op = "best_effort_unmount_if_needed"
    /\ last'.result # "conf_unreadable"
UnmountTried(cm) == \E i \in 1..Len(cm) : cm[i].cmd \in {"unmount", "umount"}
LoopDeleteTried(cm, dev) ==
    \E i \in 1..Len(cm) : cm[i].cmd \in {"loop-delete", "losetup-d"} /\ cm[i].arg = dev
SameMountsLoopsConfig == loops' = loops /\ mounts' = mounts /\ conf' = conf

C19_CleanupNeverThrows ==
    last.op \in {"uninstall_self", "best_effort_unmount_if_needed", "quit"}
        => last.result \notin {"exception", "conf_unreadable"}

(***************************************************************************)
(* Properties of pick_mountable_block, checked under SpecPick.             *)
(***************************************************************************)
Listed == fn.inp.lines
\* line i is a candidate of a ranked type, and its rank
RankedAt(i) == Len(Listed[i]) >= 2 /\ \E k \in DOMAIN prefer : prefer[k] = Listed[i][1]
RankAt(i) == CHOOSE k \in DOMAIN prefer : prefer[k] = Listed[i][1]

CandidateAt(i) == Len(Listed[i]) >= 2 /\ Listed[i][1] # "-"

Words == fn.inp
Trimmed(i) == RStrip(Words[i], {".", ";"})
RootAt(i) ==
    \E root \in {RunMedia, Media, Mnt} :
        Len(Words[i]) >= Len(root) /\ SubSeq(Words[i], 1, Len(root)) = root
FirstAt(i) == Words[i] = W_at /\ \A j \in 1..(i - 1) : Words[j] # W_at
\* the parse as the claim describes it, with `sentinel' for "nothing found"
MountPointParsed(sentinel) ==
    fn.name = "mount_point"
        => /\ \A i \in DOMAIN Words :
                (RootAt(i) /\ \A j \in 1..(i - 1) : ~RootAt(j)) => fn.out = Trimmed(i)
           /\ (\A j \in DOMAIN Words : ~RootAt(j))
                => /\ \A i \in DOMAIN Words :
                        (FirstAt(i) /\ i < Len(Words) /\ Trimmed(i + 1) # <<>>)
                            => fn.out = Trimmed(i + 1)
                   /\ (\A i \in DOMAIN Words :
                          FirstAt(i) => (i = Len(Words) \/ Trimmed(i + 1) = <<>>))
                        => fn.out = sentinel
           /\ fn.out # <<>>

\* C22 as stated: the parse returns the first word that begins with a known
\* mount root, trailing punctuation removed; otherwise the word after "at";
\* otherwise the mount still succeeds and the sentinel "unknown" is
\* recorded, so that the recorded mount point is never empty.
C22_SentinelIsUnknown == MountPointParsed(<<"u", "n", "k", "n", "o", "w", "n">>)

\* C22, amended: the same, the sentinel being "(unknown)".
C22_SentinelIsParenUnknown == MountPointParsed(UnknownMountPoint)

\* C22 witness: "Mounted /dev/loop0 at /run/media/u/I." gave /run/media/u/I.
C22_ParsedUsualOutput ==
    /\ fn.name = "mount_point"
    /\ fn.inp = <<W_Mounted, LoopDev(0), W_at, RunMedia \o <<"u", "/", "I", ".">>>>
    /\ fn.out = RunMedia \o <<"u", "/", "I">>

(***************************************************************************)
(* Properties of the recent-files list, checked under SpecPick.            *)
(***************************************************************************)
Without(list, x) == SelectSeq(list, LAMBDA y : y # x)

\* C23: after any sequence of add_to_recent_files calls from the empty
\* list, the persisted list has no duplicates and at most max_items
\* entries; after a call that returned the path it added is first, and when
\* that path was already in the list the others keep their order.
C23_RecentFilesList ==
    fn.name = "add_to_recent_files"
        => /\ \A i, j \in DOMAIN fn.out : i # j => fn.out[i] # fn.out[j]
           /\ Len(fn.out) <= fn.inp.max_items
           /\ ~fn.inp.raised
                => /\ fn.out[1] = fn.inp.filepath
                   /\ fn.inp.filepath \in Range(fn.inp.recent)
                        => /\ Len(fn.out) = Len(fn.inp.recent)
                           /\ Tail(fn.out) = Without(fn.inp.recent, fn.inp.filepath)

\* C23 witness: a full list of three had its last path added again; the
\* path moved to the front and the other two kept their order.
C23_MovedToFront ==
    /\ fn.name = "add_to_recent_files"
    /\ fn.inp.max_items = 3
    /\ ~fn.inp.raised
    /\ fn.inp.recent = <<IsoA, IsoB, IsoC>>
    /\ fn.inp.filepath = IsoC
    /\ fn.out = <<IsoC, IsoA, IsoB>>

(***************************************************************************)
(* Properties of the main window's controls, checked under Spec.           *)
(***************************************************************************)
\* C24: while the program runs without udisksctl, the Mount and Unmount
\* buttons are disabled: at startup and in every state after it.
C24_NoToolNoButtons ==
    (running /\ ~udisksctl) => (~btn_mount /\ ~btn_unmount)

(***************************************************************************)
(* Properties of the command sequence of do_mount and do_unmount, checked  *)
(* under Spec.  A do_mount that got its loop device issues, in this order: *)
(* loop-setup, the three settle helpers, the resolver's lsblk, the mount   *)
(* of the resolved device, and, when that mount fails, the lsblk of        *)
(* list_child_partitions, one mount per partition tried and loop-delete.   *)
(***************************************************************************)
\* loop-setup, the helpers and the resolver's lsblk come before the first mount
FirstMountAt == Len(SettleCmds(None, <<"ok", "ok", "ok">>)) + 3
PartsListedAt == FirstMountAt + 1
Issued(cm, c) == SelectSeq(cm, LAMBDA x : x.cmd = c)
\* the partitions of the device tree of an attached image, in lsblk's order
PartitionsOf(dev, iso) ==
    LET rows == SelectSeq(TreeOf(dev, iso), LAMBDA r : r.type = "part")
    IN [i \in DOMAIN rows |-> rows[i].path]
FirstMountFailed(cm) ==
    /\ Len(cm) >= PartsListedAt
    /\ cm[FirstMountAt].cmd = "mount" /\ cm[FirstMountAt].rc # 0
    /\ cm[PartsListedAt].cmd = "lsblk-type"

\* C25: in a do_mount whose mount of the resolved device failed, the
\* partitions list_child_partitions gave are passed to mount in their order,
\* up to and including the first that mounts, which becomes mount_device;
\* when none mounts (or there is none) loop-delete of the loop device is the
\* last command, the result is mount_fail, and the current mount fields,
\* the registry and last_mount are as before.
C25_PartitionFallback ==
    [][(last'.op = "do_mount" /\ FirstMountFailed(cmds'))
          => LET dev == last'.provisioned
                 parts == IF cmds'[PartsListedAt].rc = 0
                          THEN PartitionsOf(dev, Strip(last'.arg)) ELSE <<>>
                 rest == SubSeq(cmds', PartsListedAt + 1, Len(cmds'))
                 tries == Issued(rest, "mount")
                 n == Len(tries)
                 mounted == n > 0 /\ tries[n].rc = 0
             IN /\ n <= Len(parts)
                /\ \A i \in 1..n : tries[i].arg = parts[i]
                /\ \A i \in 1..(n - 1) : tries[i].rc # 0
                /\ mounted =>
                     /\ rest = tries
                     /\ mount_device' = tries[n].arg
                     /\ loop_device' = dev
                     /\ last'.result \in {"mounted_to", "exception"}
                     /\ last'.result = "mounted_to" =>
                          /\ conf'.last_mount.mount_device = tries[n].arg
                          /\ mounted_isos'[Len(mounted_isos')].mount_device = tries[n].arg
                /\ ~mounted =>
                     /\ n = Len(parts)
                     /\ rest = Append(tries, rest[Len(rest)])
                     /\ rest[Len(rest)].cmd = "loop-delete"
                     /\ rest[Len(rest)].arg = dev
                     /\ last'.result = "mount_fail"
                     /\ UNCHANGED <<loop_device, mount_device, mount_point, mounted_isos>>
                     /\ conf'.last_mount = conf.last_mount]_vars

\* the second partition mounted after the loop device and the first
\* partition had failed to
C25_MountedSecondPartition ==
    /\ last.op = "do_mount" /\ last.result = "mounted_to"
    /\ FirstMountFailed(cmds)
    /\ Len(cmds) = PartsListedAt + 2
    /\ cmds[PartsListedAt + 1].rc # 0
    /\ mount_device = Part(loop_device, "2")
    /\ mount_device = cmds[Len(cmds)].arg

\* some token of the output is a loop-device path once its trailing
\* punctuation is trimmed
NamesLoopDevice(out) ==
    \E i \in DOMAIN out : StartsWith(RStrip(out[i], {".", ";"}), DevLoop)

\* C26: a do_mount whose loop-setup failed, or whose loop-setup output names
\* no loop device, ends with loop_setup_fail (no_loop_device) having issued
\* no other command: no settle helper, no lsblk, no mount; the current mount
\* fields, the registry, last_mount and the mount table are as before.
C26_StopsAfterLoopSetup ==
    [][(/\ last'.op = "do_mount"
        /\ cmds' # <<>>
        /\ cmds'[1].rc # 0 \/ ~NamesLoopDevice(cmds'[1].out))
          => /\ cmds'[1].cmd = "loop-setup"
             /\ Len(cmds') = 1
             /\ last'.result = IF cmds'[1].rc # 0 THEN "loop_setup_fail"
                               ELSE "no_loop_device"
             /\ UNCHANGED <<loop_device, mount_device, mount_point, mounted_isos, mounts>>
             /\ conf'.last_mount = conf.last_mount]_vars

\* loop-setup attached the image and printed a line with no device in it
C26_NoDeviceInOutput ==
    /\ last.op = "do_mount" /\ last.result = "no_loop_device"
    /\ Len(cmds) = 1 /\ cmds[1].rc = 0 /\ cmds[1].out # <<>>
    /\ ~NamesLoopDevice(cmds[1].out)
    /\ last.provisioned \in DOMAIN loops

Retryable == {"loop-setup", "mount", "unmount", "loop-delete"}

\* C27: nothing is retried: the commands of one do_mount pass no device to
\* mount twice, and the commands of one do_mount or do_unmount hold no
\* failed loop-setup, mount, unmount or loop-delete that is issued again.
C27_NothingRetried ==
    [][(last'.op \in {"do_mount", "do_unmount"})
          => \A i, j \in DOMAIN cmds' :
                (i < j /\ cmds'[i].cmd = cmds'[j].cmd /\ cmds'[i].arg = cmds'[j].arg)
                    => /\ cmds'[i].cmd # "mount"
                       /\ ~(cmds'[i].cmd \in Retryable /\ cmds'[i].rc # 0)]_vars

(***************************************************************************)
(* Crashes and retries, checked under Spec.                                *)
(***************************************************************************)
\* C28: at the startup that follows a crash inside do_mount after loop-setup
\* succeeded, either last_mount names the loop device of that attempt and
\* its mount, both still there, or neither the loop device nor a mount of
\* one of its block devices is left.
C28_CrashLeavesRecordOrNothing ==
    [][(last.op = "do_mount_crash" /\ last'.op = "startup")
          => LET dev == last.provisioned
                 lm == conf'.last_mount
             IN \/ /\ lm.loop_device = dev
                   /\ dev \in DOMAIN loops'
                   /\ [dev |-> lm.mount_device, mp |-> lm.mount_point] \in mounts'
                \/ /\ dev \notin DOMAIN loops'
                   /\ \A m \in mounts' : ~StartsWith(m.dev, dev)]_vars

\* a do_unmount in which the tools behave as they normally do: unmount fails
\* only on a device that is not mounted, loop-delete succeeds
NormalRetry ==
    /\ DoUnmount
    /\ \A i \in DOMAIN cmds' :
        /\ cmds'[i].cmd = "loop-delete" => cmds'[i].rc = 0
        /\ (cmds'[i].cmd = "unmount" /\ cmds'[i].rc # 0)
              => mount_device \notin MountedDevs(OsState(loops, mounts))

\* the user keeps clicking Unmount while the button is offered
SpecRetry == Init /\ [][Next]_vars /\ WF_vars(NormalRetry)

\* do_unmount has just failed at loop-delete, its unmount having succeeded
StuckOn(d) ==
    /\ running
    /\ last.op = "do_unmount" /\ last.result = "loop_delete_fail"
    /\ loop_device = d
\* the driver is idle again and nothing of the mount on d is left
IdleWithout(d) ==
    /\ ~Truthy(loop_device) /\ ~Truthy(mount_point)
    /\ d \notin DOMAIN loops
    /\ \A i \in DOMAIN mounted_isos : mounted_isos[i].loop_device # d
    /\ conf.last_mount = NoMount

\* C29: once do_unmount has failed at the loop-delete step, retrying
\* do_unmount with the tools behaving normally leads, as long as the process
\* lives, to Idle: the loop device deleted, the record out of the registry,
\* last_mount empty.
C29_RetryReturnsToIdle ==
    \A d \in LoopPool : StuckOn(d) ~> (~running \/ IdleWithout(d))

(***************************************************************************)
(* The rule file, checked under SpecRule.                                  *)
(***************************************************************************)
\* C30: install never reports the permission as configured while the file
\* at the rule path is one without the ownership marker: whenever
\* on_fix_permissions ends with fixperms_ok, such a file has been removed.
C30_NoSuccessOverForeignRule ==
    [][(last'.op = "on_fix_permissions" /\ last'.result = "fixperms_ok")
          => rule_file' # "foreign"]_vars

(***************************************************************************)
(* The username test of install_polkit_rule, checked under Spec.  The      *)
(* name of the user who clicked is last.arg.                               *)
(***************************************************************************)
NameChars ==
    {"a", "b", "c", "d", "e", "f", "g", "h", "i", "j", "k", "l", "m", "n", "o", "p", "q",
     "r", "s", "t", "u", "v", "w", "x", "y", "z", "0", "1", "2", "3", "4", "5", "6", "7",
     "8", "9", "_", "-"}
BadUsername(u) == u = <<>> \/ \E i \in DOMAIN u : u[i] \notin NameChars
Rejected ==
    /\ last'.result = "fixperms_failed"
    /\ cmds' = <<>>
    /\ conf'.polkit_rule = conf.polkit_rule
    /\ rule_file' = rule_file

PartitionLines(lines) == {i \in DOMAIN lines : Len(lines[i]) >= 2 /\ lines[i][1] = "part"}

\* C32: list_child_partitions returns the paths of the entries of type
\* "part", each once and in the order of the listing, so the loop device
\* (an entry of type "loop") is not among them; it returns the empty
\* sequence when there is no such entry and when lsblk fails or is absent
\* (run() then gives a non-zero exit code and no output).
C32_ChildPartitions ==
    fn.name = "list_child_partitions"
        => LET lines == fn.inp.lines
               idx == IF fn.inp.rc = 0 THEN PartitionLines(lines) ELSE {}
           IN /\ Len(fn.out) = Cardinality(idx)
              /\ \A i \in idx : fn.out[Cardinality({j \in idx : j < i}) + 1] = lines[i][2]
              /\ \A k \in DOMAIN fn.inp.lines :
                    (Len(lines[k]) >= 2 /\ lines[k][1] = "loop")
                        => \A n \in DOMAIN fn.out : fn.out[n] # lines[k][2]

\* the listing of a partitioned image: the loop device, then two partitions
C32_TwoPartitionsListed ==
    /\ fn.name = "list_child_partitions"
    /\ fn.inp.rc = 0
    /\ fn.inp.lines = <<<<"loop", LoopDev(0)>>, <<"part", Part(LoopDev(0), "1")>>,
                        <<"part", Part(LoopDev(0), "2")>>>>
    /\ fn.out = <<Part(LoopDev(0), "1"), Part(LoopDev(0), "2")>>

\* the entries of the settle helpers in a command log
SettleEntries(cm) ==
    SelectSeq(cm, LAMBDA x : x.cmd \in {"udevadm", "partprobe", "blockdev"})

\* C33: in a do_mount whose loop-setup provisioned a loop device, whichever
\* of the settle helpers are absent, fail, time out or succeed, the entries
\* of the helpers that ran are followed at once by the resolution of the
\* provisioned device and by a mount: the settle step ends no mount attempt.
C33_SettleNeverStopsMount ==
    [][(/\ last'.op = "do_mount"
        /\ cmds' # <<>>
        /\ cmds'[1].cmd = "loop-setup" /\ cmds'[1].rc = 0
        /\ NamesLoopDevice(cmds'[1].out))
          => LET n == Len(SettleEntries(cmds'))
             IN /\ \A k \in 2..(n + 1) : cmds'[k] \in Range(SettleEntries(cmds'))
                /\ Len(cmds') >= n + 3
                /\ cmds'[n + 2].cmd = "lsblk-fstype"
                /\ cmds'[n + 2].arg = last'.provisioned
                /\ cmds'[n + 3].cmd = "mount"
                /\ last'.result \notin {"loop_setup_fail", "no_loop_device"}
                /\ (cmds'[n + 3].rc = 0) =>
                       last'.result \in {"mounted_to", "exception"}]_vars

\* an image was mounted although a helper hung until its timeout
C33_MountedAfterTimeout ==
    /\ last.op = "do_mount" /\ last.result = "mounted_to"
    /\ \E k \in DOMAIN cmds : cmds[k].cmd = "partprobe" /\ cmds[k].rc = 124
    /\ mount_point # None

\* C34: an uninstall_self that completed leaves the config with the
\* permission flag false and last_mount empty (the keys of the document the
\* mount engine reads back), and the startup that follows it re-adopts no
\* mount and has_permission_rules answers false.
C34_UninstallLeavesSafeDefault ==
    [][/\ (last'.op = "uninstall_self" /\ last'.result = "ok")
            => (~conf'.polkit_rule /\ conf'.last_mount = NoMount)
       /\ (/\ last.op = "uninstall_self" /\ last.result = "ok"
           /\ last'.op = "startup" /\ last'.result # "exception")
            => /\ mounted_isos' = <<>>
               /\ loop_device' = None
               /\ ~has_permission_rules(perms_fixed', conf', rule_file').result]_vars

\* C35: an exit issues unmount and loop-delete only with auto_unmount_on_exit
\* true; with the option off it issues no command and leaves the mount
\* table, the loop devices and the persisted last_mount as they were, and
\* the startup that follows has the records of the ended process whose
\* devices are still mounted in its registry again.
C35_ExitKeepsMountsWhenOff ==
    [][/\ (last'.op = "quit" /\ cmds' # <<>>) => auto_unmount_on_exit
       /\ (last'.op = "quit" /\ ~auto_unmount_on_exit)
            => (cmds' = <<>> /\ UNCHANGED <<loops, mounts, conf>>)
       /\ (/\ last.op = "quit" /\ last.result = "kept" /\ last.arg # <<>>
           /\ \A i \in DOMAIN last.arg :
                  \E m \in mounts : m.dev = last.arg[i].mount_device
           /\ last'.op = "startup" /\ last'.result # "exception")
            => mounted_isos' = last.arg]_vars

C37_CurrentMountIsARecord ==
    \/ /\ loop_device = None /\ mount_device = None /\ mount_point = None
       /\ mounted_isos = <<>>
    \/ \E i \in DOMAIN mounted_isos :
          /\ mounted_isos[i].loop_device = loop_device
          /\ mounted_isos[i].mount_device = mount_device
          /\ mounted_isos[i].mount_point = mount_point

\* C38: when the primary or the .bak held a valid document at the start of
\* a write_conf, then at every step of that write_conf, and when it has
\* returned or raised, the primary or the .bak holds a valid document.
C38_WriteKeepsARecoverableDocument ==
    (/\ ValidFile(wr.old.primary) \/ ValidFile(wr.old.bak)
     /\ wr.pc # "idle" \/ ev.op = "write_conf")
        => (ValidFile(cfs.primary) \/ ValidFile(cfs.bak))

\* C39: a startup that finds a persisted last_mount whose device is still
\* mounted re-adopts it: the registry holds its record and the current mount
\* fields are those of the record, whatever mount point was recorded.
C39_StillMountedIsReadopted ==
    [][(/\ last'.op = "startup" /\ last'.result # "exception"
        /\ Truthy(conf.last_mount.mount_point)
        /\ \E m \in mounts : m.dev = conf.last_mount.mount_device)
          => /\ mounted_isos' = <<RestoredInfo(conf.last_mount)>>
             /\ loop_device' = conf.last_mount.loop_device
             /\ mount_point' = conf.last_mount.mount_point]_vars

\* the positions of the entries of a log whose command is one of cs
At(cm, cs) == {i \in DOMAIN cm : cm[i].cmd \in cs}
FailsafeCmds == {"unmount", "umount", "loop-delete", "losetup-d"}
RuleRemovalCmds == {"pkexec-rm", "unlink-rule"}

\* C40: in every uninstall_self the failsafe unmount and loop deletion come
\* before the removal of the rule file and the config write comes after
\* both, as the last step; the config changes only in a run that got to
\* that write, and then to polkit_rule false and last_mount empty.
C40_UninstallOrder ==
    [][last'.op = "uninstall_self"
        => /\ \A i \in At(cmds', FailsafeCmds) :
                \A j \in At(cmds', RuleRemovalCmds) : i < j
           /\ \A i \in At(cmds', FailsafeCmds \cup RuleRemovalCmds) :
                \A k \in At(cmds', {"write_conf"}) : i < k
           /\ At(cmds', {"write_conf"}) \subseteq {Len(cmds')}
           /\ conf' # conf
                => /\ cmds' # <<>> /\ cmds'[Len(cmds')] = Cmd("write_conf", None, 0)
                   /\ ~conf'.polkit_rule /\ conf'.last_mount = NoMount]_vars

\* an uninstall that unmounted the last mount, deleted its loop device,
\* removed the rule through pkexec and reset the config
C40_UnmountedThenRemovedRule ==
    /\ last.op = "uninstall_self" /\ last.result = "ok"
    /\ Len(cmds) = 4
    /\ cmds[1].cmd = "unmount" /\ cmds[1].rc = 0
    /\ cmds[2].cmd = "loop-delete"
    /\ cmds[3] = Cmd("pkexec-rm", None, 0)
    /\ cmds[4] = Cmd("write_conf", None, 0)
    /\ rule_file = "absent" /\ conf.last_mount = NoMount
====
